---- MODULE Spec2Model ----
(***************************************************************************)
(* Model of the RAG-Anything document pipeline.                            *)
(*                                                                         *)
(*   Spec       one document identifier driven through                     *)
(*              process_document_complete / insert_content_list and        *)
(*              _process_multimodal_content (raganything/processor.py),    *)
(*              with the modal processors' _create_entity_and_chunk and    *)
(*              _process_chunk_for_extraction (raganything/modalprocessors *)
(*              .py) as the per-item step.  Every await on a storage or    *)
(*              model call is a point where the call may raise.            *)
(*   CacheSpec  parse_document with its parse cache (_generate_cache_key,  *)
(*              _get_cached_result, _store_cached_result), interleaved     *)
(*              with file modifications and configuration changes.         *)
(*   KeySpec    one parse_document call over all bounded arguments, for    *)
(*              the properties of the cache key as a function.             *)
(*   DocSpec    one process_document_complete call on a new document:      *)
(*              parse_document with its cache, then the pipeline.          *)
(*   ItemSpec   one insert_content_list run with every place an item can   *)
(*              raise at and every outcome of the entity extraction.       *)
(*   SeparateSpec  _separate_content (raganything/raganything.py) on any   *)
(*              bounded content list, and the item_info and chunk-mode     *)
(*              context of its modal items.                                *)
(*   ResponseSpec  one call of a response parser of the modal processors   *)
(*              on any bounded response.                                   *)
(*   FolderSpec  one call of process_folder_complete (raganything.py) on   *)
(*              any bounded folder, under every interleaving of its        *)
(*              process_single_file tasks; FolderFairSpec adds the         *)
(*              fairness of the event loop.                                *)
(*   RagBatchSpec  one call of process_documents_with_rag_batch (batch.py) *)
(*              after any bounded outcome of its parse stage.              *)
(*   DocIdSpec  parse_document calls that name one file by any of its      *)
(*              paths, for the document identifier of a parse.             *)
(*   ResumeSpec  repeated insert_content_list calls for one document with  *)
(*              the same content, for resumption over several runs.        *)
(*   ContextSpec  one call of ContextExtractor._extract_page_context       *)
(*              (modalprocessors.py) on any bounded paged content list;    *)
(*              TruncateSpec one call of _truncate_context on any bounded  *)
(*              text and budget.                                           *)
(*   ServiceSpec  the ingestion service (deploy/coolify/app/main.py):      *)
(*              ingest, reset and delete requests on the workspaces of     *)
(*              the WorkspaceManager, interleaved at their awaits.         *)
(*   RelationSpec  the belongs_to records written by calls of              *)
(*              _process_chunk_for_extraction for any carriers and mined   *)
(*              entity names.                                              *)
(*                                                                         *)
(* The call at processor.py:512-522 passes doc_id and chunk_order_index;   *)
(* the processors of modalprocessors.py do not declare these parameters.   *)
(* The model takes the call as binding to the processor and the processor  *)
(* body as written in modalprocessors.py.                                  *)
(***************************************************************************)
EXTENDS Integers, Sequences, FiniteSets, TLC

(***************************************************************************)
(* Bounds of the model.                                                    *)
(***************************************************************************)
MaxItems == 2
MaxRuns == 3
MaxCalls == 3
MaxMtime == 2

VARIABLES
    \* ---- document pipeline (processor.py) ----
    pc,                   \* position of the pipeline call for the document
    runs,                 \* number of runs started so far on the document
    modal_processors,     \* the processor registry: set of registered keys
    multimodal_items,     \* modal items of the current run (their type tags)
    text_nonempty,        \* text_content.strip() is non-empty
    text_inserts,         \* calls of insert_text_content made in this run
    idx,                  \* loop index i (1-based) of the item loop
    all_chunk_results,    \* accumulated deferred results of the run
    multimodal_chunk_ids, \* chunk ids collected in the run
    item_outcomes,        \* per processed item: where it raised, or "none"
    doc_status,           \* the persisted DocumentStatus record of the document
    stores,               \* chunk store, graph and vector indices
    calls,                \* calls made inside _process_multimodal_content in this run
    status_lookup,        \* outcome of the entry lookup of doc_status
    status_exc,           \* a doc_status operation raised and was swallowed in this run
    merge_arg             \* chunk_results argument of the run's merge call

pvars == <<pc, runs, modal_processors, multimodal_items, text_nonempty, text_inserts, idx,
           all_chunk_results, multimodal_chunk_ids, item_outcomes, doc_status,
           stores, calls, status_lookup, status_exc, merge_arg>>

VARIABLES
    \* ---- parse_document and its parse cache (processor.py) ----
    ppc,                  \* position of the parse_document call
    n_calls,              \* number of parse_document calls started so far
    file_mtime,           \* file_path.stat().st_mtime of the file
    config_parser,        \* self.config.parser
    cache_configured,     \* self.parse_cache exists and is not None
    parse_cache,          \* the entries of the parse cache, each with its key
    call,                 \* arguments of the call and what key generation read
    cache_key,            \* the local cache_key
    lookup,               \* branch _get_cached_result returned through
    parser_calls,         \* parser invocations of the call, in order
    content_list,         \* the local content_list returned by the parser
    cache_raised,         \* parse-cache operations that raised in the call
    result,               \* the value the call returns
    quiet,                \* no file or configuration change since the call began
    prev                  \* key and result of the previous call, and whether it
                          \* returned quietly and without a cache exception

cvars == <<ppc, n_calls, file_mtime, config_parser, cache_configured, parse_cache,
           call, cache_key, lookup, parser_calls, content_list, cache_raised,
           result, quiet, prev>>

VARIABLES
    \* ---- classification, item positions and response parsing as functions ----
    fpc,                  \* "start", or which function was applied last
    blocks,               \* the content list given to _separate_content
    separated,            \* what _separate_content built and returned
    contexts,             \* per modal item: its item_info and its chunk-mode context
    response_in,          \* arguments of the response parser call
    parsed                \* what the response parser returned, or that it raised

fvars == <<fpc, blocks, separated, contexts, response_in, parsed>>

VARIABLES
    \* ---- batch processing (raganything.py process_folder_complete, batch.py) ----
    bpc,                  \* position of the process_folder_complete call
    folder_exists,        \* folder_path exists and is a directory
    files_to_process,     \* the discovered files, in discovery order
    max_workers,          \* the max_workers of the call
    semaphore,            \* the value of the asyncio.Semaphore
    tasks,                \* per discovered file: position of its process_single_file
    processed_count,      \* the nonlocal processed_count
    failed_files,         \* the list failed_files of (file, error string) pairs
    report,               \* what process_folder_complete returned
    rpc,                  \* position of the process_documents_with_rag_batch call
    successful_files,     \* parse_result.successful_files
    rag_i,                \* number of files the RAG loop has finished with
    rag_calls,            \* the calls of process_document_complete: file and outcome
    rag_results,          \* the dict rag_results: file -> its entry
    rag_report            \* what process_documents_with_rag_batch returned

bvars == <<bpc, folder_exists, files_to_process, max_workers, semaphore, tasks,
           processed_count, failed_files, report, rpc, successful_files, rag_i,
           rag_calls, rag_results, rag_report>>

VARIABLES
    \* ---- context extraction (modalprocessors.py ContextExtractor) ----
    epc,                  \* "start", or which extractor function was applied
    content_source,       \* the content list given to the extractor
    current_item_info,    \* current_item_info of the call
    context_config,       \* the ContextConfig of the extractor
    context_texts,        \* the list context_texts the loop collected
    context,              \* the text given to _truncate_context
    extracted             \* the text the call returned

evars == <<epc, content_source, current_item_info, context_config, context_texts,
           context, extracted>>

VARIABLES
    \* ---- ingestion service (deploy/coolify/app/main.py) ----
    requests,             \* per request slot: its handler, workspace and position
    instances,            \* WorkspaceManager._instances: per workspace its entry
    locks,                \* WorkspaceManager._locks: per workspace its lock, or none
    holder,               \* per asyncio.Lock created so far: the request holding it
    n_rags,               \* number of RAGAnything instances created so far
    finalized             \* the instances whose finalize_storages was called

svars == <<requests, instances, locks, holder, n_rags, finalized>>

VARIABLES
    \* ---- belongs_to records (modalprocessors.py _process_chunk_for_extraction) ----
    rel_calls,            \* number of _process_chunk_for_extraction calls made
    rel_edges,            \* the (source, target) pairs given to upsert_edge
    rel_vdb               \* relationships_vdb: the records, each with its key

rvars == <<rel_calls, rel_edges, rel_vdb>>

vars == <<pvars, cvars, fvars, bvars, evars, svars, rvars>>

(***************************************************************************)
(* Content blocks and modal processors                                     *)
(***************************************************************************)
\* type tags of non-text blocks that occur in the bounded documents
ItemTypes == {"image", "table"}

\* description-function responses: well-formed JSON, or any other text
Responses == {"json", "raw"}

\* entities mined by extract_entities from a chunk: a sub-entity and/or an
\* entity carrying the carrier's own name
MinedNames == {"sub", "self"}

\* RAGAnything._initialize_processors: the registry for the three enable_*
\* flags of the configuration; "generic" is always registered
InitializeProcessors(enable_image, enable_table, enable_equation) ==
    (IF enable_image THEN {"image"} ELSE {})
    \cup (IF enable_table THEN {"table"} ELSE {})
    \cup (IF enable_equation THEN {"equation"} ELSE {})
    \cup {"generic"}

\* _get_processor_for_type: the key looked up in the registry
ProcessorKey(content_type) ==
    IF content_type \in {"image", "table", "equation"} THEN content_type ELSE "generic"

\* the registry lookup (dict.get): TRUE when a processor is returned
GetProcessorForType(procs, content_type) == ProcessorKey(content_type) \in procs

\* the places of one item's processing where a call can raise, in program
\* order ("image_missing": the image file is missing or cannot be encoded)
FailOrder == <<"image_missing", "caption", "parse_response", "chunk_upsert", "node_upsert",
               "entity_vdb",
               "chunk_lookup", "chunks_vdb", "extract", "edge_upsert", "rel_vdb">>

\* how a processor's process_multimodal_content ends when its body raised at
\* fp: the image processor catches every exception of its body and returns
\* the pair (str(modal_content), fallback_entity); the other processors let
\* the exception out; without an exception the triple of
\* _create_entity_and_chunk is returned
ProcessorReturn(content_type, fp) ==
    IF fp = "none" THEN "triple"
    ELSE IF content_type = "image" THEN "pair"
    ELSE "raised"

\* faulty variant: an item's exception leaves the loop
AfterItem_Propagating(fp, last) ==
    IF fp # "none" THEN "raised"
    ELSE IF last THEN "update_status" ELSE "items"

\* where the item loop goes after an item that raised at fp (or did not
\* raise): `except Exception: ... continue`
AfterItem(fp, last) == IF last THEN "update_status" ELSE "items"

FailPoints == {FailOrder[k] : k \in 1..Len(FailOrder)} \cup {"none"}

Rank(fp) == IF fp = "none" THEN Len(FailOrder) + 1
            ELSE CHOOSE k \in 1..Len(FailOrder) : FailOrder[k] = fp

\* the step named `step` ran to completion when the item raised at `fp`
Completed(step, fp) == Rank(step) < Rank(fp)

\* the step named `step` was called (it completed or it is the one that raised)
Called(step, fp) == Rank(step) <= Rank(fp)

\* compute_mdhash_id(modal_chunk, prefix="chunk-"): the chunk text is the
\* type's chunk template filled with the item and the description
ChunkId_PerCall(content_type, response) == <<"chunk-", content_type, response, idx>>

ChunkId(content_type, response) == <<"chunk-", content_type, response>>

\* the carrier entity's name, from the parsed response or the fallback
EntityName(content_type, response) == <<content_type, response>>

\* compute_mdhash_id(entity_name, prefix="ent-")
EntityVdbId(name) == <<"ent-", name>>

\* compute_mdhash_id(entity_name + modal_entity_name, prefix="rel-"): the
\* digest of the two names written one after the other (names are sequences)
RelationId(src, tgt) == <<"rel-", src \o tgt>>

\* names of the mined entities for a carrier
MinedEntities(mined, carrier) ==
    {IF m = "self" THEN carrier ELSE <<"sub">> : m \in mined}

\* faulty variant of the loop over maybe_nodes: no self-relationship test
BelongsToEdges_WithSelf(mined, carrier) ==
    {<<e, carrier>> : e \in MinedEntities(mined, carrier)}

\* the belongs_to edges _process_chunk_for_extraction adds for a carrier
BelongsToEdges(mined, carrier) ==
    {<<e, carrier>> : e \in MinedEntities(mined, carrier) \ {carrier}}

\* relation_data of a belongs_to edge (weight 10.0)
RelationData(entity_name, modal_entity_name, chunk_id) ==
    [description |-> <<"Entity ", entity_name, " belongs to ", modal_entity_name>>,
     keywords |-> "belongs_to,part_of,contained_in",
     source_id |-> chunk_id,
     weight |-> 10]

\* maybe_edges[(entity_name, modal_entity_name)] = [relation_data], for
\* each of the edges
BelongsToData(edges, chunk_id) ==
    [key \in edges |-> <<RelationData(key[1], key[2], chunk_id)>>]

\* batch_mode as passed by _process_multimodal_content
BatchMode == TRUE

(***************************************************************************)
(* DocumentStatus                                                          *)
(***************************************************************************)
NoStatus ==
    [present |-> FALSE, multimodal_chunks_list |-> <<>>,
     multimodal_chunks_count |-> 0, multimodal_processed |-> FALSE]

\* the record LightRAG keeps once the document's text was inserted; the
\* multimodal fields are absent and read through .get(..., default)
TextStatus ==
    [present |-> TRUE, multimodal_chunks_list |-> <<>>,
     multimodal_chunks_count |-> 0, multimodal_processed |-> FALSE]

\* faulty variant of the resumption test: a strict comparison of the counts
AlreadyProcessed_Strict(status, its) ==
    /\ status.present
    /\ status.multimodal_processed
    /\ Len(status.multimodal_chunks_list) > Len(its)

\* the resumption test of _process_multimodal_content
AlreadyProcessed(status, its) ==
    /\ status.present
    /\ status.multimodal_processed
    /\ Len(status.multimodal_chunks_list) >= Len(its)

\* the record written after the item loop
UpdatedStatus(current, chunk_ids) ==
    [current EXCEPT
        !.multimodal_chunks_list = current.multimodal_chunks_list \o chunk_ids,
        !.multimodal_chunks_count = Len(current.multimodal_chunks_list \o chunk_ids),
        !.multimodal_processed = TRUE]

\* faulty variant of the record for a document without modal items: the
\* flag is left as it is
MarkedStatus_NoFlag(existing) ==
    [existing EXCEPT
        !.multimodal_chunks_count = Len(existing.multimodal_chunks_list)]

\* the record written for a document without modal items
MarkedStatus(existing) ==
    [existing EXCEPT
        !.multimodal_chunks_count = Len(existing.multimodal_chunks_list),
        !.multimodal_processed = TRUE]

\* `if multimodal_chunk_ids:`
ShouldUpdateStatus(chunk_ids) == chunk_ids # <<>>

\* faulty variant of the merge guard: merge whatever was collected
ShouldMerge_Always(chunk_results) == TRUE

\* `if all_chunk_results:`
ShouldMerge(chunk_results) == chunk_results # <<>>

(***************************************************************************)
(* Initial state                                                           *)
(***************************************************************************)
NoCalls ==
    [processor |-> 0, caption |-> 0, upsert |-> 0, status_write |-> 0,
     merge |-> 0, merge_done |-> 0, flush |-> 0, item_merge |-> 0,
     create |-> 0, returned |-> 0, returned_create |-> 0, raised |-> 0]

EmptyStores ==
    [text_chunks |-> {}, graph_nodes |-> {}, entities_vdb |-> {}, chunks_vdb |-> {},
     graph_edges |-> {}, relationships_vdb |-> {}]

\* run-local state at the start of a run
RunReset ==
    /\ idx' = 1
    /\ text_inserts' = 0
    /\ all_chunk_results' = <<>>
    /\ multimodal_chunk_ids' = <<>>
    /\ item_outcomes' = <<>>
    /\ calls' = NoCalls
    /\ status_lookup' = "none"
    /\ status_exc' = FALSE
    /\ merge_arg' = <<>>

PipelineInit ==
    /\ pc = "idle"
    /\ runs = 0
    /\ \E img \in BOOLEAN : modal_processors = InitializeProcessors(img, TRUE, TRUE)
    /\ multimodal_items = <<>>
    /\ text_nonempty = FALSE
    /\ text_inserts = 0
    /\ idx = 1
    /\ all_chunk_results = <<>>
    /\ multimodal_chunk_ids = <<>>
    /\ item_outcomes = <<>>
    /\ doc_status = NoStatus
    /\ stores = EmptyStores
    /\ calls = NoCalls
    /\ status_lookup = "none"
    /\ status_exc = FALSE
    /\ merge_arg = <<>>

\* the modal item lists of the bounded documents
ItemLists == UNION {[1..n -> ItemTypes] : n \in 0..MaxItems}


(***************************************************************************)
(* process_document_complete / insert_content_list                         *)
(***************************************************************************)
\* process_document_complete, up to separate_content: parse_document either
\* returns the content list or raises, and its exception is not caught here
ParseDocument(its, txt, parse_ok) ==
    /\ pc = "idle"
    /\ runs < MaxRuns
    /\ runs' = runs + 1
    /\ RunReset
    /\ IF parse_ok
       THEN /\ multimodal_items' = its
            /\ text_nonempty' = txt
            /\ pc' = "insert_text"
       ELSE /\ its = <<>> /\ txt = FALSE
            /\ multimodal_items' = <<>>
            /\ text_nonempty' = FALSE
            /\ pc' = "raised"
    /\ UNCHANGED <<modal_processors, doc_status, stores>>
    /\ UNCHANGED <<cvars, fvars, bvars, evars, svars, rvars>>

\* insert_content_list, up to separate_content: no parsing
InsertContentList(its, txt) ==
    /\ pc = "idle"
    /\ runs < MaxRuns
    /\ runs' = runs + 1
    /\ RunReset
    /\ multimodal_items' = its
    /\ text_nonempty' = txt
    /\ pc' = "insert_text"
    /\ UNCHANGED <<modal_processors, doc_status, stores>>
    /\ UNCHANGED <<cvars, fvars, bvars, evars, svars, rvars>>

\* insert_text_content(lightrag, text, ids=doc_id): LightRAG enqueues the
\* document under doc_id unless a record for doc_id exists already
InsertedStatus(status) == IF status.present THEN status ELSE TextStatus

\* `if text_content.strip():` on the classified text
InsertsText_Always(nonempty) == TRUE

InsertsText(nonempty) == nonempty

\* Step 3 / Step 2: `if text_content.strip(): await insert_text_content(...)`
InsertTextContent(insert_ok) ==
    /\ pc = "insert_text"
    /\ text_inserts' = IF InsertsText(text_nonempty) THEN text_inserts + 1 ELSE text_inserts
    /\ IF InsertsText(text_nonempty)
       THEN IF insert_ok
            THEN /\ doc_status' = InsertedStatus(doc_status)
                 /\ pc' = IF multimodal_items # <<>> THEN "mm_enter" ELSE "mark_no_mm"
            ELSE /\ doc_status' = doc_status
                 /\ pc' = "raised"
       ELSE /\ insert_ok
            /\ doc_status' = doc_status
            /\ pc' = IF multimodal_items # <<>> THEN "mm_enter" ELSE "mark_no_mm"
    /\ UNCHANGED <<runs, modal_processors, multimodal_items, text_nonempty, idx,
                   all_chunk_results, multimodal_chunk_ids, item_outcomes, stores,
                   calls, status_lookup, status_exc, merge_arg>>
    /\ UNCHANGED <<cvars, fvars, bvars, evars, svars, rvars>>

\* outcomes of a read-then-write on the doc_status store
StatusOps == {"ok", "get_raises", "upsert_raises", "flush_raises"}

\* the else branch of `if multimodal_items:`: mark the document as processed;
\* every exception of the block is caught and logged at debug level
MarkNoMultimodal(op) ==
    /\ pc = "mark_no_mm"
    /\ IF op = "get_raises"
       THEN /\ doc_status' = doc_status
            /\ status_exc' = TRUE
       ELSE IF doc_status.present /\ ~doc_status.multimodal_processed
            THEN /\ doc_status' = IF op = "upsert_raises" THEN doc_status
                                  ELSE MarkedStatus(doc_status)
                 /\ status_exc' = (op # "ok")
            ELSE /\ op = "ok"
                 /\ doc_status' = doc_status
                 /\ status_exc' = FALSE
    /\ pc' = "done"
    /\ UNCHANGED <<runs, modal_processors, multimodal_items, text_nonempty, text_inserts, idx,
                   all_chunk_results, multimodal_chunk_ids, item_outcomes, stores,
                   calls, status_lookup, merge_arg>>
    /\ UNCHANGED <<cvars, fvars, bvars, evars, svars, rvars>>

(***************************************************************************)
(* _process_multimodal_content                                             *)
(***************************************************************************)
\* entry: the resumption check and the read of chunks_count.  An exception
\* of the first lookup is caught ("continue with processing if cache check
\* fails"); the second lookup is outside any try block
MultimodalEnter(lookup_ok, second_ok) ==
    /\ pc = "mm_enter"
    /\ status_lookup' = IF lookup_ok THEN "ok" ELSE "raised"
    /\ IF lookup_ok /\ AlreadyProcessed(doc_status, multimodal_items)
       THEN /\ second_ok
            /\ pc' = "done"
       ELSE pc' = IF second_ok THEN "items" ELSE "raised"
    /\ UNCHANGED <<runs, modal_processors, multimodal_items, text_nonempty, text_inserts, idx,
                   all_chunk_results, multimodal_chunk_ids, item_outcomes, doc_status,
                   stores, calls, status_exc, merge_arg>>
    /\ UNCHANGED <<cvars, fvars, bvars, evars, svars, rvars>>

\* the deferred results one item returns: one (maybe_nodes, maybe_edges)
\* pair for its chunk, the belongs_to edges added to maybe_edges
ChunkResults(content_type, response, mined) ==
    <<[chunk |-> ChunkId(content_type, response),
       nodes |-> MinedEntities(mined, EntityName(content_type, response)),
       edges |-> BelongsToEdges(mined, EntityName(content_type, response)),
       edge_data |-> BelongsToData(BelongsToEdges(mined, EntityName(content_type, response)),
                                   ChunkId(content_type, response))]>>

\* the stores after one item's processor call that raised at fp (or did not
\* raise): _create_entity_and_chunk and _process_chunk_for_extraction
StoresAfterItem(st, content_type, response, mined, fp) ==
    LET cid == ChunkId(content_type, response)
        carrier == EntityName(content_type, response)
        edges == BelongsToEdges(mined, carrier)
    IN  [text_chunks |-> st.text_chunks \cup
            (IF Completed("chunk_upsert", fp) THEN {cid} ELSE {}),
         graph_nodes |-> st.graph_nodes \cup
            (IF Completed("node_upsert", fp) THEN {carrier} ELSE {}),
         entities_vdb |-> st.entities_vdb \cup
            (IF Completed("entity_vdb", fp) THEN {EntityVdbId(carrier)} ELSE {}),
         chunks_vdb |-> st.chunks_vdb \cup
            (IF Completed("chunks_vdb", fp) THEN {cid} ELSE {}),
         graph_edges |-> st.graph_edges \cup
            (IF Completed("edge_upsert", fp) THEN edges ELSE {}),
         relationships_vdb |-> st.relationships_vdb \cup
            (IF Completed("rel_vdb", fp)
             THEN {RelationId(e[1], e[2]) : e \in edges} ELSE {})]

\* number of storage upserts one item's processing completed
UpsertsOfItem(mined, fp) ==
    (IF Completed("chunk_upsert", fp) THEN 1 ELSE 0)
    + (IF Completed("node_upsert", fp) THEN 1 ELSE 0)
    + (IF Completed("entity_vdb", fp) THEN 1 ELSE 0)
    + (IF Completed("chunks_vdb", fp) THEN 1 ELSE 0)
    + (IF Completed("edge_upsert", fp) /\ "sub" \in mined THEN 1 ELSE 0)
    + (IF Completed("rel_vdb", fp) /\ "sub" \in mined THEN 1 ELSE 0)

\* one iteration of `for i, item in enumerate(multimodal_items)`: the item
\* is skipped without a processor; otherwise the processor is called with
\* batch_mode and either returns (entity_info with chunk_id, chunk_results)
\* or raises at fp, which the loop's except clause catches; the pair the
\* image processor returns after an exception fails to unpack into the
\* three names, which raises within the same try block
ProcessItem(response, mined, fp) ==
    /\ pc = "items"
    /\ idx <= Len(multimodal_items)
    /\ LET content_type == multimodal_items[idx]
           found == GetProcessorForType(modal_processors, content_type)
       IN  /\ fp = "image_missing" => content_type = "image"
           /\ fp \in {"edge_upsert", "rel_vdb"} => "sub" \in mined
           /\ ~Completed("caption", fp) => response = "json"
           /\ ~Completed("extract", fp) => mined = {}
           /\ ~found => (fp = "none" /\ response = "json" /\ mined = {})
           /\ IF found
              THEN /\ stores' = StoresAfterItem(stores, content_type, response, mined, fp)
                   /\ calls' = [calls EXCEPT
                          !.processor = @ + 1,
                          !.caption = @ + (IF Called("caption", fp) THEN 1 ELSE 0),
                          !.upsert = @ + UpsertsOfItem(mined, fp),
                          !.create = @ + (IF Called("chunk_upsert", fp) THEN 1 ELSE 0),
                          !.returned = @ + (IF ProcessorReturn(content_type, fp) # "raised"
                                            THEN 1 ELSE 0),
                          !.returned_create = @ +
                              (IF /\ ProcessorReturn(content_type, fp) # "raised"
                                  /\ Called("chunk_upsert", fp)
                               THEN 1 ELSE 0),
                          !.raised = @ + (IF ProcessorReturn(content_type, fp) = "raised"
                                          THEN 1 ELSE 0),
                          !.item_merge = @ + (IF fp = "none" /\ ~BatchMode THEN 1 ELSE 0)]
                   /\ item_outcomes' = Append(item_outcomes, fp)
                   /\ IF fp = "none"
                      THEN /\ all_chunk_results' = all_chunk_results \o
                                  ChunkResults(content_type, response, mined)
                           /\ multimodal_chunk_ids' = Append(multimodal_chunk_ids,
                                  ChunkId(content_type, response))
                      ELSE UNCHANGED <<all_chunk_results, multimodal_chunk_ids>>
              ELSE /\ item_outcomes' = Append(item_outcomes, "no_processor")
                   /\ UNCHANGED <<stores, calls, all_chunk_results, multimodal_chunk_ids>>
    /\ idx' = idx + 1
    /\ pc' = AfterItem(fp, idx = Len(multimodal_items))
    /\ UNCHANGED <<runs, modal_processors, multimodal_items, text_nonempty, text_inserts,
                   doc_status, status_lookup, status_exc, merge_arg>>
    /\ UNCHANGED <<cvars, fvars, bvars, evars, svars, rvars>>

\* "Update doc_status to include multimodal chunks": every exception of the
\* block is caught and logged as a warning
UpdateDocStatus(op) ==
    /\ pc = "update_status"
    /\ IF ~ShouldUpdateStatus(multimodal_chunk_ids)
       THEN /\ op = "ok"
            /\ UNCHANGED <<doc_status, calls, status_exc>>
       ELSE IF op = "get_raises"
       THEN /\ status_exc' = TRUE
            /\ UNCHANGED <<doc_status, calls>>
       ELSE IF ~doc_status.present
       THEN /\ op = "ok"
            /\ UNCHANGED <<doc_status, calls, status_exc>>
       ELSE IF op = "upsert_raises"
       THEN /\ status_exc' = TRUE
            /\ UNCHANGED <<doc_status, calls>>
       ELSE /\ doc_status' = UpdatedStatus(doc_status, multimodal_chunk_ids)
            /\ calls' = [calls EXCEPT !.status_write = @ + 1]
            /\ status_exc' = (status_exc \/ op = "flush_raises")
    /\ pc' = "merge"
    /\ UNCHANGED <<runs, modal_processors, multimodal_items, text_nonempty, text_inserts, idx,
                   all_chunk_results, multimodal_chunk_ids, item_outcomes, stores,
                   status_lookup, merge_arg>>
    /\ UNCHANGED <<cvars, fvars, bvars, evars, svars, rvars>>

\* "Batch merge all multimodal content results": merge_nodes_and_edges over
\* all_chunk_results; its exception is not caught
BatchMerge(merge_ok) ==
    /\ pc = "merge"
    /\ IF ShouldMerge(all_chunk_results)
       THEN /\ merge_arg' = all_chunk_results
            /\ calls' = [calls EXCEPT !.merge = @ + 1,
                                      !.merge_done = @ + (IF merge_ok THEN 1 ELSE 0)]
            /\ pc' = IF merge_ok THEN "insert_done" ELSE "raised"
       ELSE /\ merge_ok
            /\ pc' = "done"
            /\ UNCHANGED <<merge_arg, calls>>
    /\ UNCHANGED <<runs, modal_processors, multimodal_items, text_nonempty, text_inserts, idx,
                   all_chunk_results, multimodal_chunk_ids, item_outcomes, doc_status,
                   stores, status_lookup, status_exc>>
    /\ UNCHANGED <<cvars, fvars, bvars, evars, svars, rvars>>

\* `await self.lightrag._insert_done()` after the merge
InsertDone(flush_ok) ==
    /\ pc = "insert_done"
    /\ calls' = [calls EXCEPT !.flush = @ + 1]
    /\ pc' = IF flush_ok THEN "done" ELSE "raised"
    /\ UNCHANGED <<runs, modal_processors, multimodal_items, text_nonempty, text_inserts, idx,
                   all_chunk_results, multimodal_chunk_ids, item_outcomes, doc_status,
                   stores, status_lookup, status_exc, merge_arg>>
    /\ UNCHANGED <<cvars, fvars, bvars, evars, svars, rvars>>

\* the call has returned (pc = "done") or raised (pc = "raised"); the caller
\* may start another run on the same document
Return ==
    /\ pc \in {"done", "raised"}
    /\ pc' = "idle"
    /\ UNCHANGED <<runs, modal_processors, multimodal_items, text_nonempty, text_inserts, idx,
                   all_chunk_results, multimodal_chunk_ids, item_outcomes, doc_status,
                   stores, calls, status_lookup, status_exc, merge_arg>>
    /\ UNCHANGED <<cvars, fvars, bvars, evars, svars, rvars>>

(***************************************************************************)
(* parse_document and the parse cache                                      *)
(***************************************************************************)
\* modification times of the file
Mtimes == 1..MaxMtime

\* values of self.config.parser
Parsers == {"mineru", "docling"}

\* self.config.parse_method
ConfigParseMethod == "auto"

\* parse_method arguments of the bounded calls; "None" is the default
ParseMethodArgs == {"None", "ocr"}

\* `if parse_method is None: parse_method = self.config.parse_method`
ResolveParseMethod(parse_method) ==
    IF parse_method = "None" THEN ConfigParseMethod ELSE parse_method

\* the file of the bounded calls, given by its relative or its absolute path
FilePaths == {"doc.pdf", "/work/doc.pdf"}

\* str(file_path.absolute()) with /work as the working directory
Absolute(file_path) ==
    IF file_path = "doc.pdf" THEN "/work/doc.pdf" ELSE file_path

\* the options the key and parse_config keep from **kwargs
AllowList == {"lang", "device", "start_page", "end_page", "formula", "table",
              "backend", "source"}

\* option names of the bounded calls: one on the list and one (an option
\* of MineruParser._run_mineru_command) not on it
KwargNames == {"lang", "vlm_url"}

KwargValues == {"v"}

\* **kwargs of the bounded calls
KwargSets == UNION {[names -> KwargValues] : names \in SUBSET KwargNames}

\* faulty variant: every option is kept
RelevantKwargs_All(kwargs) == kwargs

\* relevant_kwargs = {k: v for k, v in kwargs.items() if k in [...]}
RelevantKwargs(kwargs) == [k \in DOMAIN kwargs \cap AllowList |-> kwargs[k]]

\* _generate_cache_key: the md5 digest of the sorted-key JSON text of
\* config_dict; the digest is taken collision-free, so the key is the
\* dictionary itself
GenerateCacheKey(file_path, mtime, parser, parse_method, kwargs) ==
    [file_path |-> Absolute(file_path),
     mtime |-> mtime,
     parser |-> parser,
     parse_method |-> parse_method,
     relevant_kwargs |-> RelevantKwargs(kwargs)]

\* parse_config / current_config of _store_cached_result and _get_cached_result
ParseConfig(parser, parse_method, kwargs) ==
    [parser |-> parser,
     parse_method |-> parse_method,
     relevant_kwargs |-> RelevantKwargs(kwargs)]

\* faulty variant of the stored entry: the modification time is not recorded
CacheData_NoMtime(key, content, doc_id, mtime, parse_config) ==
    [key |-> key, content_list |-> content, doc_id |-> doc_id, mtime |-> 0,
     parse_config |-> parse_config]

\* cache_data of _store_cached_result, with the key it is stored under
CacheData(key, content, doc_id, mtime, parse_config) ==
    [key |-> key, content_list |-> content, doc_id |-> doc_id, mtime |-> mtime,
     parse_config |-> parse_config]

\* parse_cache.upsert({cache_key: entry})
Upsert(cache, entry) == {e \in cache : e.key # entry.key} \cup {entry}

\* parse_cache.get_by_id(cache_key): the entries under the key (none or one)
GetById(cache, key) == {e \in cache : e.key = key}

\* faulty variant: the path the call was given enters the digest
DocId_OfCall(content) == <<"doc-", content, call.file_path>>

\* _generate_content_based_doc_id: a "doc-" prefixed digest of the content
DocId(content) == <<"doc-", content>>

\* faulty variant of the validity checks: the modification time is not compared
CheckCachedData_NoMtime(cached_data, current_mtime, current_config) ==
    IF cached_data.parse_config # current_config THEN "config_changed"
    ELSE IF cached_data.content_list # <<>> THEN "hit"
    ELSE "incomplete"

\* the checks of _get_cached_result on an entry it found, in their order
CheckCachedData(cached_data, current_mtime, current_config) ==
    IF current_mtime # cached_data.mtime THEN "file_modified"
    ELSE IF cached_data.parse_config # current_config THEN "config_changed"
    ELSE IF cached_data.content_list # <<>> THEN "hit"
    ELSE "incomplete"

\* what the parser returns on a version of the file (the version being
\* identified by its mtime) when it returns blocks
ParserOutput(mtime) == <<[version |-> mtime]>>

NoResult == <<>>

NoCall == [file_path |-> "", parse_method |-> "", kwargs |-> <<>>, mtime |-> 0,
           parser |-> ""]

NoKey == GenerateCacheKey("", 0, "", "", <<>>)

NoPrev == [clean |-> FALSE, cache_key |-> NoKey, result |-> NoResult]

\* the cache side at rest
CacheIdle ==
    /\ ppc = "idle"
    /\ n_calls = 0
    /\ file_mtime = 1
    /\ config_parser = "mineru"
    /\ parse_cache = {}
    /\ call = NoCall
    /\ cache_key = NoKey
    /\ lookup = "none"
    /\ parser_calls = <<>>
    /\ content_list = <<>>
    /\ cache_raised = {}
    /\ result = NoResult
    /\ quiet = TRUE
    /\ prev = NoPrev

\* parse_document up to the cache lookup: defaults, Path(file_path), and
\* _generate_cache_key, which reads the file's mtime and config.parser
ParseDocumentBegin(file_path, parse_method, kwargs) ==
    /\ ppc = "idle"
    /\ n_calls < MaxCalls
    /\ n_calls' = n_calls + 1
    /\ call' = [file_path |-> file_path,
                parse_method |-> ResolveParseMethod(parse_method),
                kwargs |-> kwargs,
                mtime |-> file_mtime,
                parser |-> config_parser]
    /\ cache_key' = GenerateCacheKey(file_path, file_mtime, config_parser,
                                     ResolveParseMethod(parse_method), kwargs)
    /\ lookup' = "none"
    /\ parser_calls' = <<>>
    /\ content_list' = <<>>
    /\ cache_raised' = {}
    /\ result' = NoResult
    /\ quiet' = TRUE
    /\ ppc' = "lookup"
    /\ UNCHANGED <<file_mtime, config_parser, cache_configured, parse_cache, prev>>
    /\ UNCHANGED <<pvars, fvars, bvars, evars, svars, rvars>>

\* faulty variant: an exception of the lookup leaves parse_document
AfterLookup_Propagating(branch) ==
    IF branch = "hit" THEN "returned"
    ELSE IF branch = "error" THEN "raised"
    ELSE "parse"

\* where parse_document continues after _get_cached_result: it returns the
\* cached pair, or (None returned, on every other branch and from the
\* except clause) goes on to parse
AfterLookup(branch) == IF branch = "hit" THEN "returned" ELSE "parse"

\* _get_cached_result and `if cached_result is not None: return ...`
GetCachedResult(get_ok) ==
    /\ ppc = "lookup"
    /\ LET found == GetById(parse_cache, cache_key)
           current_config == ParseConfig(config_parser, call.parse_method, call.kwargs)
           branch ==
               IF ~cache_configured THEN "no_cache"
               ELSE IF ~get_ok THEN "error"
               ELSE IF found = {} THEN "absent"
               ELSE CheckCachedData(CHOOSE e \in found : TRUE, file_mtime, current_config)
       IN  /\ ~cache_configured => get_ok
           /\ lookup' = branch
           /\ cache_raised' = IF branch = "error" THEN {"get_by_id"} ELSE {}
           /\ result' = IF branch = "hit"
                        THEN LET e == CHOOSE e \in found : TRUE
                             IN  <<e.content_list, e.doc_id>>
                        ELSE NoResult
           /\ ppc' = AfterLookup(branch)
    /\ UNCHANGED <<n_calls, file_mtime, config_parser, cache_configured, parse_cache,
                   call, cache_key, parser_calls, content_list, quiet, prev>>
    /\ UNCHANGED <<pvars, fvars, bvars, evars, svars, rvars>>

\* outcomes of the parsing block: the selected parser returns blocks or an
\* empty list; or it raises and the MinerU fallback returns blocks; or both
\* raise and the exception leaves parse_document
ParserOutcomes == {"blocks", "empty", "fallback_blocks", "raises"}

\* faulty variant: an exception of the fallback is swallowed and the call
\* goes on with an empty content list
AfterParser_Swallowing(outcome) == "store"

\* where parse_document continues after the parsing block: the exception of
\* MineruParser().parse_document in the except clause is not caught
AfterParser(outcome) == IF outcome = "raises" THEN "raised" ELSE "store"

\* the parsing block of parse_document and the doc_id of its result
RunParser(outcome) ==
    /\ ppc = "parse"
    /\ LET selected == IF config_parser = "docling" THEN "docling" ELSE "mineru"
           invocation == [parser |-> selected, method |-> call.parse_method,
                          kwargs |-> call.kwargs,
                          raised |-> (outcome \in {"fallback_blocks", "raises"})]
           fallback == [parser |-> "mineru", method |-> call.parse_method,
                        kwargs |-> call.kwargs,
                        raised |-> (outcome = "raises")]
       IN  /\ parser_calls' = IF outcome \in {"blocks", "empty"}
                              THEN <<invocation>>
                              ELSE <<invocation, fallback>>
           /\ content_list' = IF outcome \in {"blocks", "fallback_blocks"}
                              THEN ParserOutput(file_mtime)
                              ELSE <<>>
    /\ ppc' = AfterParser(outcome)
    /\ UNCHANGED <<n_calls, file_mtime, config_parser, cache_configured, parse_cache,
                   call, cache_key, lookup, cache_raised, result, quiet, prev>>
    /\ UNCHANGED <<pvars, fvars, bvars, evars, svars, rvars>>

\* outcomes of the two awaits of _store_cached_result
StoreOps == {"ok", "upsert_raises", "index_done_raises"}

\* _store_cached_result and the return of (content_list, doc_id)
StoreCachedResult(op) ==
    /\ ppc = "store"
    /\ IF ~cache_configured
       THEN /\ op = "ok"
            /\ UNCHANGED <<parse_cache, cache_raised>>
       ELSE /\ parse_cache' =
                  IF op = "upsert_raises" THEN parse_cache
                  ELSE Upsert(parse_cache,
                              CacheData(cache_key, content_list, DocId(content_list),
                                        file_mtime,
                                        ParseConfig(config_parser, call.parse_method,
                                                    call.kwargs)))
            /\ cache_raised' = cache_raised \cup
                  (IF op = "upsert_raises" THEN {"upsert"}
                   ELSE IF op = "index_done_raises" THEN {"index_done_callback"}
                   ELSE {})
    /\ result' = <<content_list, DocId(content_list)>>
    /\ ppc' = "returned"
    /\ UNCHANGED <<n_calls, file_mtime, config_parser, cache_configured, call,
                   cache_key, lookup, parser_calls, content_list, quiet, prev>>
    /\ UNCHANGED <<pvars, fvars, bvars, evars, svars, rvars>>

\* the call has returned or raised: its locals are gone, and the caller may
\* call again
ParseDocumentEnd ==
    /\ ppc \in {"returned", "raised"}
    /\ prev' = [clean |-> (ppc = "returned" /\ quiet /\ cache_raised = {}),
                cache_key |-> cache_key,
                result |-> result]
    /\ ppc' = "idle"
    /\ call' = NoCall
    /\ cache_key' = NoKey
    /\ lookup' = "none"
    /\ parser_calls' = <<>>
    /\ content_list' = <<>>
    /\ cache_raised' = {}
    /\ result' = NoResult
    /\ quiet' = TRUE
    /\ UNCHANGED <<n_calls, file_mtime, config_parser, cache_configured, parse_cache>>
    /\ UNCHANGED <<pvars, fvars, bvars, evars, svars, rvars>>

\* the file is modified outside parse_document, which gives it a later mtime
ModifyFile ==
    /\ ppc \notin {"returned", "raised"}
    /\ file_mtime < MaxMtime
    /\ file_mtime' = file_mtime + 1
    /\ quiet' = (quiet /\ ppc = "idle")
    /\ UNCHANGED <<ppc, n_calls, config_parser, cache_configured, parse_cache, call,
                   cache_key, lookup, parser_calls, content_list, cache_raised,
                   result, prev>>
    /\ UNCHANGED <<pvars, fvars, bvars, evars, svars, rvars>>

\* config.parser is reassigned between calls, or by another task while
\* parse_document awaits parse_cache.get_by_id (the one await between the
\* reads of config.parser at key generation and at validation; from the
\* validation to the store's parse_config the call does not await)
ChangeConfig(parser) ==
    /\ ppc \in {"idle", "lookup"}
    /\ parser # config_parser
    /\ config_parser' = parser
    /\ quiet' = (quiet /\ ppc = "idle")
    /\ UNCHANGED <<ppc, n_calls, file_mtime, cache_configured, parse_cache, call,
                   cache_key, lookup, parser_calls, content_list, cache_raised,
                   result, prev>>
    /\ UNCHANGED <<pvars, fvars, bvars, evars, svars, rvars>>

(***************************************************************************)
(* _separate_content, item_info and the chunk-mode context                 *)
(***************************************************************************)
\* longest content list of the bounded calls
MaxBlocks == 3

\* page indices of the bounded blocks
Pages == {0, 1}

\* a text is a sequence of characters
Whitespace == {" ", "\n"}

\* the content blocks of the bounded lists: text blocks with a word or with
\* blanks only, blocks of a type other than "text" (one differing from it by
\* case only), and a block without a "type" key (its type is "none" here)
ContentBlocks ==
    {[type |-> "text", text |-> t, page_idx |-> p] : t \in {<<"a">>, <<" ">>}, p \in Pages}
    \cup {[type |-> ty, text |-> <<>>, page_idx |-> p] : ty \in {"image", "Text"}, p \in Pages}
    \cup {[type |-> "none", text |-> <<"b">>, page_idx |-> 0]}

ContentLists == UNION {[1..n -> ContentBlocks] : n \in 0..MaxBlocks}

\* faulty variant: the default of the item loop ("unknown") is used
ContentType_Unknown(item) == IF item.type = "none" THEN "unknown" ELSE item.type

\* content_type = item.get("type", "text")
ContentType(item) == IF item.type = "none" THEN "text" ELSE item.type

\* str.strip(): the text without its leading and trailing whitespace
RECURSIVE LStrip(_)
LStrip(text) ==
    IF text # <<>> /\ Head(text) \in Whitespace THEN LStrip(Tail(text)) ELSE text

RECURSIVE RStrip(_)
RStrip(text) ==
    IF text # <<>> /\ text[Len(text)] \in Whitespace
    THEN RStrip(SubSeq(text, 1, Len(text) - 1)) ELSE text

Strip(text) == RStrip(LStrip(text))

\* faulty variant: the text is tested without strip()
KeepsText_Unstripped(text) == text # <<>>

\* `if text.strip():`
KeepsText(text) == Strip(text) # <<>>

\* "\n\n".join(text_parts)
RECURSIVE Join(_)
Join(parts) ==
    IF parts = <<>> THEN <<>>
    ELSE IF Len(parts) = 1 THEN parts[1]
    ELSE parts[1] \o <<"\n", "\n">> \o Join(Tail(parts))

\* the loop of _separate_content from item k on
RECURSIVE SeparateLoop(_, _, _, _)
SeparateLoop(cl, k, text_parts, items) ==
    IF k > Len(cl)
    THEN [text_parts |-> text_parts, multimodal_items |-> items]
    ELSE IF ContentType(cl[k]) = "text"
    THEN IF KeepsText(cl[k].text)
         THEN SeparateLoop(cl, k + 1, Append(text_parts, cl[k].text), items)
         ELSE SeparateLoop(cl, k + 1, text_parts, items)
    ELSE SeparateLoop(cl, k + 1, text_parts, Append(items, cl[k]))

\* _separate_content: (text_content, multimodal_items), with the text_parts
\* the text was joined from
SeparateContentOf(cl) ==
    LET r == SeparateLoop(cl, 1, <<>>, <<>>)
    IN  [text_parts |-> r.text_parts,
         text_content |-> Join(r.text_parts),
         multimodal_items |-> r.multimodal_items]

\* ContextConfig.context_window
ContextWindow == 1

\* ContextConfig.filter_content_types
FilterContentTypes == {"text"}

\* item_info of the item loop for the item at index i of
\* enumerate(multimodal_items)
ItemInfo(items, i) ==
    [page_idx |-> items[i + 1].page_idx, index |-> i, type |-> items[i + 1].type]

Max(a, b) == IF a >= b THEN a ELSE b

Min(a, b) == IF a <= b THEN a ELSE b

\* _extract_chunk_context: the indices (0-based) of content_list the loop
\* visits, `for i in range(start_idx, end_idx): if i != current_index`
ChunkWindow(cl, item_info) ==
    LET current_index == item_info.index
        start_idx == Max(0, current_index - ContextWindow)
        end_idx == Min(Len(cl), current_index + ContextWindow + 1)
    IN  SelectSeq([k \in 1..Max(0, end_idx - start_idx) |-> start_idx + k - 1],
                  LAMBDA i : i # current_index)

\* _extract_chunk_context: the context_texts collected from the visited
\* blocks (the blocks of a filtered type with a non-blank text); the joined
\* text of the bounded lists stays below max_context_tokens
ChunkContext(cl, item_info) ==
    LET window == ChunkWindow(cl, item_info)
        kept == SelectSeq(window,
                    LAMBDA i : /\ cl[i + 1].type \in FilterContentTypes
                               /\ Strip(cl[i + 1].text) # <<>>)
    IN  [k \in 1..Len(kept) |-> cl[kept[k] + 1].text]

NoSeparated == [text_parts |-> <<>>, text_content |-> <<>>, multimodal_items |-> <<>>]

(***************************************************************************)
(* The response parsers of the modal processors                            *)
(***************************************************************************)
\* the keys the parsers require of entity_info
RequiredKeys == {"entity_name", "entity_type", "summary"}

\* values of "entity_info" in the JSON object of a response: the key is
\* absent; an empty object; a number; a string or a list without the
\* required key names in it; a list of the three key names; an object with
\* some of the required keys, whose entity_name (when present) is a string
\* or null
EntityInfos ==
    {[shape |-> sh, keys |-> {}, name |-> "str"] :
         sh \in {"absent", "empty", "number", "string", "list", "key_list"}}
    \cup {[shape |-> "object", keys |-> ks, name |-> nm] :
              ks \in (SUBSET RequiredKeys) \ {{}}, nm \in {"str", "null"}}

\* values of "detailed_description": absent, the empty string, a text
Descriptions == {"absent", "empty", "text"}

\* responses of the description function: text without a {...} part, text
\* whose {...} part is not JSON, or text whose {...} part is a JSON object
ResponseTexts ==
    {[kind |-> k, description |-> "absent",
      entity_info |-> [shape |-> "absent", keys |-> {}, name |-> "str"]] :
         k \in {"plain", "bad_json"}}
    \cup {[kind |-> "json", description |-> d, entity_info |-> e] :
              d \in Descriptions, e \in EntityInfos}

\* the entity_name argument: <<>> is None
EntityNameArgs == {<<>>, <<"given name">>}

\* the four parsers; _parse_generic_response takes the content type, the
\* others use their own type in the fallback entity
ResponseParsers == {"image", "table", "equation", "generic"}

\* content_type of the bounded _parse_generic_response calls
GenericContentType == "chart"

FallbackType(parser) == IF parser = "generic" THEN GenericContentType ELSE parser

\* the except clause of a parser: the fallback entity and the raw response
FallbackResult(parser, response, entity_name) ==
    [raised |-> "no",
     description |-> <<"response", response>>,
     entity |-> [entity_name |-> IF entity_name # <<>> THEN entity_name
                                 ELSE <<FallbackType(parser), "_", <<"md5", response>>>>,
                 entity_type |-> <<FallbackType(parser)>>,
                 summary |-> <<"response[:100]", response>>],
     fallback |-> TRUE]

\* an exception that is none of JSONDecodeError, AttributeError, ValueError
\* leaves the parser
RaisedResult(exception) ==
    [raised |-> exception,
     description |-> <<>>,
     entity |-> [entity_name |-> <<>>, entity_type |-> <<>>, summary |-> <<>>],
     fallback |-> FALSE]

\* `all(key in entity_data for key in [...])`: "ok", "missing", or the
\* TypeError of `in` on a value that is not a container
HasRequiredKeys(entity_data) ==
    IF entity_data.shape = "number" THEN "TypeError"
    ELSE IF entity_data.shape = "key_list" THEN "ok"
    ELSE IF entity_data.shape = "object" /\ entity_data.keys = RequiredKeys THEN "ok"
    ELSE "missing"

\* faulty variant of the try block: the override name is ignored
ParsedResult_NoOverride(response, entity_name) ==
    [raised |-> "no",
     description |-> <<"detailed_description">>,
     entity |-> [entity_name |-> <<"entity_name", " (", "entity_type", ")">>,
                 entity_type |-> <<"entity_type">>,
                 summary |-> <<"summary">>],
     fallback |-> FALSE]

\* the end of the try block on a response with all required fields
ParsedResult(response, entity_name) ==
    [raised |-> "no",
     description |-> <<"detailed_description">>,
     entity |-> [entity_name |-> IF entity_name # <<>> THEN entity_name
                                 ELSE <<"entity_name", " (", "entity_type", ")">>,
                 entity_type |-> <<"entity_type">>,
                 summary |-> <<"summary">>],
     fallback |-> FALSE]

\* _parse_response, _parse_table_response, _parse_equation_response and
\* _parse_generic_response: the same body up to the fallback type
ParseResponseWith(parser, response, entity_name) ==
    IF response.kind = "plain"
    THEN FallbackResult(parser, response, entity_name)        \* AttributeError
    ELSE IF response.kind = "bad_json"
    THEN FallbackResult(parser, response, entity_name)        \* JSONDecodeError
    ELSE IF response.description \in {"absent", "empty"}
            \/ response.entity_info.shape \in {"absent", "empty"}
    THEN FallbackResult(parser, response, entity_name)        \* ValueError
    ELSE IF HasRequiredKeys(response.entity_info) = "TypeError"
    THEN RaisedResult("TypeError")
    ELSE IF HasRequiredKeys(response.entity_info) = "missing"
    THEN FallbackResult(parser, response, entity_name)        \* ValueError
    ELSE IF response.entity_info.shape = "key_list"
    THEN RaisedResult("TypeError")           \* entity_data["entity_name"] on a list
    ELSE IF response.entity_info.name = "null"
    THEN RaisedResult("TypeError")           \* None + str
    ELSE ParsedResult(response, entity_name)

NoResponseIn == [parser |-> "", response |-> <<>>, entity_name |-> <<>>]

NoParsed == RaisedResult("")

\* the function side at rest
FuncIdle ==
    /\ fpc = "start"
    /\ blocks = <<>>
    /\ separated = NoSeparated
    /\ contexts = <<>>
    /\ response_in = NoResponseIn
    /\ parsed = NoParsed

\* a call of _separate_content on a content list
SeparateContent(cl) ==
    /\ fpc = "start"
    /\ blocks' = cl
    /\ separated' = SeparateContentOf(cl)
    /\ fpc' = "separated"
    /\ UNCHANGED <<contexts, response_in, parsed>>
    /\ UNCHANGED <<pvars, cvars, bvars, evars, svars, rvars>>

\* one iteration of the item loop up to the processor's context: item_info
\* is built for the next item, and the processor extracts the item's context
\* from the content source, which is the content list that was separated
ExtractItemContext ==
    /\ fpc = "separated"
    /\ Len(contexts) < Len(separated.multimodal_items)
    /\ LET item_info == ItemInfo(separated.multimodal_items, Len(contexts))
       IN  contexts' = Append(contexts,
                              [item_info |-> item_info,
                               window |-> ChunkWindow(blocks, item_info),
                               context |-> ChunkContext(blocks, item_info)])
    /\ UNCHANGED <<fpc, blocks, separated, response_in, parsed>>
    /\ UNCHANGED <<pvars, cvars, bvars, evars, svars, rvars>>

\* a call of one of the response parsers
ParseResponse(parser, response, entity_name) ==
    /\ fpc = "start"
    /\ response_in' = [parser |-> parser, response |-> response,
                       entity_name |-> entity_name]
    /\ parsed' = ParseResponseWith(parser, response, entity_name)
    /\ fpc' = "parsed"
    /\ UNCHANGED <<blocks, separated, contexts>>
    /\ UNCHANGED <<pvars, cvars, bvars, evars, svars, rvars>>

(***************************************************************************)
(* Batch processing: RAGAnything.process_folder_complete (raganything.py)  *)
(* and BatchMixin.process_documents_with_rag_batch (batch.py)              *)
(***************************************************************************)
MaxFiles == 3
MaxWorkers == 2

\* number of files the discovery finds under folder_path
FileCounts == 0..MaxFiles

\* max_workers as the caller or config.max_concurrent_files
\* (MAX_CONCURRENT_FILES, any int) gives it
WorkerCounts == -1..MaxWorkers

\* str(e) of the exceptions the processing of a file raises
Errors == {"permission denied", "parse failed"}

\* the return value of process_folder_complete: not returned yet, the bare
\* `return` of an empty discovery (None), or the dict of the last statement
NoReport ==
    [kind |-> "pending", total |-> 0, success |-> 0, failed |-> 0, failed_files |-> <<>>]

NoneReport == [NoReport EXCEPT !.kind = "None"]

Report(files, count, failed) ==
    [kind |-> "dict", total |-> Len(files), success |-> count,
     failed |-> Len(failed), failed_files |-> failed]

\* asyncio.Semaphore: acquire goes through while the value is positive
CanAcquire_Unbounded(value) == TRUE

CanAcquire(value) == value > 0

\* asyncio.Semaphore.release at the exit of `async with semaphore`, which
\* encloses the try statement of process_single_file
SemaphoreRelease_Leaking(value) == value

SemaphoreRelease(value) == value + 1

\* the except clause of process_single_file
RecordFailure_Silent(failed, file_path, e) == failed

RecordFailure(failed, file_path, e) == Append(failed, <<file_path, e>>)

\* a process_single_file coroutine as created: waiting at the semaphore, no
\* exception caught
NoTask == [pos |-> "created", error |-> ""]

\* the tasks that hold the semaphore: inside process_document_complete, or
\* inside it in an external call that never returns
InFlight == {f \in 1..Len(tasks) : tasks[f].pos \in {"inside", "hung"}}

\* process_folder_complete up to asyncio.gather: the check of folder_path,
\* the discovery, the early return, the semaphore and the creation of one
\* process_single_file per discovered file
ProcessFolderComplete(exists, n, mw) ==
    /\ bpc = "idle"
    /\ rpc = "idle"
    /\ folder_exists' = exists
    /\ max_workers' = mw
    /\ IF ~exists
       THEN /\ bpc' = "raised"
            /\ UNCHANGED <<files_to_process, semaphore, tasks, report>>
       ELSE /\ files_to_process' = [i \in 1..n |-> i]
            /\ IF n = 0
               THEN /\ bpc' = "returned"
                    /\ report' = NoneReport
                    /\ UNCHANGED <<semaphore, tasks>>
               ELSE IF mw < 0
               THEN /\ bpc' = "raised"
                    /\ UNCHANGED <<semaphore, tasks, report>>
               ELSE /\ bpc' = "gather"
                    /\ semaphore' = mw
                    /\ tasks' = [i \in 1..n |-> NoTask]
                    /\ UNCHANGED report
    /\ UNCHANGED <<processed_count, failed_files>>
    /\ UNCHANGED <<rpc, successful_files, rag_i, rag_calls, rag_results, rag_report>>
    /\ UNCHANGED <<pvars, cvars, fvars, evars, svars, rvars>>

\* process_single_file passes `async with semaphore`
ProcessSingleFileEnter(f) ==
    /\ bpc = "gather"
    /\ f \in 1..Len(tasks)
    /\ tasks[f].pos = "created"
    /\ CanAcquire(semaphore)
    /\ semaphore' = semaphore - 1
    /\ tasks' = [tasks EXCEPT ![f].pos = "inside"]
    /\ UNCHANGED <<bpc, folder_exists, files_to_process, max_workers, processed_count,
                   failed_files, report>>
    /\ UNCHANGED <<rpc, successful_files, rag_i, rag_calls, rag_results, rag_report>>
    /\ UNCHANGED <<pvars, cvars, fvars, evars, svars, rvars>>

\* process_document_complete returned: the file is counted, the semaphore
\* is released
ProcessSingleFileSuccess(f) ==
    /\ bpc = "gather"
    /\ f \in 1..Len(tasks)
    /\ tasks[f].pos = "inside"
    /\ processed_count' = processed_count + 1
    /\ semaphore' = SemaphoreRelease(semaphore)
    /\ tasks' = [tasks EXCEPT ![f].pos = "succeeded"]
    /\ UNCHANGED <<bpc, folder_exists, files_to_process, max_workers, failed_files, report>>
    /\ UNCHANGED <<rpc, successful_files, rag_i, rag_calls, rag_results, rag_report>>
    /\ UNCHANGED <<pvars, cvars, fvars, evars, svars, rvars>>

\* the creation of the output directory or process_document_complete raised
\* an Exception: the except clause records the file, the semaphore is released
ProcessSingleFileExcept(f, e) ==
    /\ bpc = "gather"
    /\ f \in 1..Len(tasks)
    /\ tasks[f].pos = "inside"
    /\ failed_files' = RecordFailure(failed_files, files_to_process[f], e)
    /\ semaphore' = SemaphoreRelease(semaphore)
    /\ tasks' = [tasks EXCEPT ![f] = [pos |-> "failed", error |-> e]]
    /\ UNCHANGED <<bpc, folder_exists, files_to_process, max_workers, processed_count,
                   report>>
    /\ UNCHANGED <<rpc, successful_files, rag_i, rag_calls, rag_results, rag_report>>
    /\ UNCHANGED <<pvars, cvars, fvars, evars, svars, rvars>>

\* an external call made by process_document_complete never returns: the
\* await is not wrapped in a timeout, the task stays inside `async with`
ProcessSingleFileHang(f) ==
    /\ bpc = "gather"
    /\ f \in 1..Len(tasks)
    /\ tasks[f].pos = "inside"
    /\ tasks' = [tasks EXCEPT ![f].pos = "hung"]
    /\ UNCHANGED <<bpc, folder_exists, files_to_process, max_workers, semaphore,
                   processed_count, failed_files, report>>
    /\ UNCHANGED <<rpc, successful_files, rag_i, rag_calls, rag_results, rag_report>>
    /\ UNCHANGED <<pvars, cvars, fvars, evars, svars, rvars>>

\* asyncio.gather returns when every task has ended; the report is returned
GatherReturns ==
    /\ bpc = "gather"
    /\ \A f \in 1..Len(tasks) : tasks[f].pos \in {"succeeded", "failed"}
    /\ report' = Report(files_to_process, processed_count, failed_files)
    /\ bpc' = "returned"
    /\ UNCHANGED <<folder_exists, files_to_process, max_workers, semaphore, tasks,
                   processed_count, failed_files>>
    /\ UNCHANGED <<rpc, successful_files, rag_i, rag_calls, rag_results, rag_report>>
    /\ UNCHANGED <<pvars, cvars, fvars, evars, svars, rvars>>

\* the files given to a batch, by path
BatchFiles == {"a.pdf", "b.pdf", "c.pdf"}

\* parse_result.successful_files of the parse stage: any list of them
RECURSIVE SeqsUpTo(_, _)
SeqsUpTo(S, n) ==
    IF n = 0 THEN {<<>>}
    ELSE LET shorter == SeqsUpTo(S, n - 1)
         IN  shorter \cup {Append(q, x) : q \in shorter, x \in S}

SuccessfulFileLists == SeqsUpTo(BatchFiles, MaxFiles)

\* the entry of rag_results for a file: "returns", or the error string
RagEntry(outcome) ==
    IF outcome = "returns"
    THEN [status |-> "success", error |-> "", processed |-> TRUE]
    ELSE [status |-> "failed", error |-> outcome, processed |-> FALSE]

\* rag_results[file_path] = entry
DictSet(d, k, v) == [x \in (DOMAIN d) \cup {k} |-> IF x = k THEN v ELSE d[x]]

\* where the loop over successful_files goes on after a file
AfterRagFile_Propagating(outcome) == IF outcome = "returns" THEN "loop" ELSE "raised"

AfterRagFile(outcome) == "loop"

NoRagReport == [kind |-> "pending", successful_rag_files |-> 0, failed_rag_files |-> 0]

RagReport(results) ==
    [kind |-> "dict",
     successful_rag_files |-> Cardinality({k \in DOMAIN results : results[k].processed}),
     failed_rag_files |-> Cardinality({k \in DOMAIN results : ~results[k].processed})]

\* process_documents_with_rag_batch up to its loop: the parse stage has
\* returned parse_result
ProcessDocumentsWithRagBatch(succ) ==
    /\ rpc = "idle"
    /\ bpc = "idle"
    /\ successful_files' = succ
    /\ rpc' = "loop"
    /\ UNCHANGED <<rag_i, rag_calls, rag_results, rag_report>>
    /\ UNCHANGED <<bpc, folder_exists, files_to_process, max_workers, semaphore, tasks,
                   processed_count, failed_files, report>>
    /\ UNCHANGED <<pvars, cvars, fvars, evars, svars, rvars>>

\* the loop calls process_document_complete for the next file of the list
RagProcessDocument ==
    /\ rpc = "loop"
    /\ rag_i < Len(successful_files)
    /\ rag_calls' = Append(rag_calls, [file_path |-> successful_files[rag_i + 1],
                                       outcome |-> "pending"])
    /\ rpc' = "in_document"
    /\ UNCHANGED <<successful_files, rag_i, rag_results, rag_report>>
    /\ UNCHANGED <<bpc, folder_exists, files_to_process, max_workers, semaphore, tasks,
                   processed_count, failed_files, report>>
    /\ UNCHANGED <<pvars, cvars, fvars, evars, svars, rvars>>

\* process_document_complete returned or raised an Exception: the entry of
\* the file is written and the loop goes on
RagDocumentEnd(outcome) ==
    /\ rpc = "in_document"
    /\ rag_results' = DictSet(rag_results, successful_files[rag_i + 1], RagEntry(outcome))
    /\ rag_i' = rag_i + 1
    /\ rag_calls' = [rag_calls EXCEPT ![Len(rag_calls)].outcome = outcome]
    /\ rpc' = AfterRagFile(outcome)
    /\ UNCHANGED <<successful_files, rag_report>>
    /\ UNCHANGED <<bpc, folder_exists, files_to_process, max_workers, semaphore, tasks,
                   processed_count, failed_files, report>>
    /\ UNCHANGED <<pvars, cvars, fvars, evars, svars, rvars>>

\* the loop is over: the result dict is built and returned
RagReturn ==
    /\ rpc = "loop"
    /\ rag_i = Len(successful_files)
    /\ rag_report' = RagReport(rag_results)
    /\ rpc' = "returned"
    /\ UNCHANGED <<successful_files, rag_i, rag_calls, rag_results>>
    /\ UNCHANGED <<bpc, folder_exists, files_to_process, max_workers, semaphore, tasks,
                   processed_count, failed_files, report>>
    /\ UNCHANGED <<pvars, cvars, fvars, evars, svars, rvars>>

\* the batch side at rest
BatchIdle ==
    /\ bpc = "idle"
    /\ folder_exists = FALSE
    /\ files_to_process = <<>>
    /\ max_workers = 0
    /\ semaphore = 0
    /\ tasks = <<>>
    /\ processed_count = 0
    /\ failed_files = <<>>
    /\ report = NoReport
    /\ rpc = "idle"
    /\ successful_files = <<>>
    /\ rag_i = 0
    /\ rag_calls = <<>>
    /\ rag_results = <<>>
    /\ rag_report = NoRagReport

(***************************************************************************)
(* The context extractor of the modal processors                           *)
(***************************************************************************)
MaxPages == 5
MaxWindow == 1
MaxChars == 7
MaxBudget == 7

\* ContextConfig.max_context_tokens
MaxContextTokens == 2000

\* str(k) of a page index, as its characters
Digits == <<"0", "1", "2", "3", "4", "5", "6", "7", "8", "9">>

PageStr(k) == <<Digits[k + 1]>>

\* the blocks a page of the bounded content lists can hold: a text block
\* with a word or with blanks only, an image block with or without a
\* caption, a table block with a caption
PageBlocks(k) ==
    {[type |-> "text", page_idx |-> k, text |-> t, captions |-> <<>>] :
         t \in {<<"t">> \o PageStr(k), <<" ">>}}
    \cup {[type |-> "image", page_idx |-> k, text |-> <<>>, captions |-> c] :
              c \in {<<>>, <<<<"i">> \o PageStr(k)>>}}
    \cup {[type |-> "table", page_idx |-> k, text |-> <<>>,
           captions |-> <<<<"c">> \o PageStr(k)>>]}

\* the bounded content lists: one block for each of the pages 0..MaxPages-1
PagedLists ==
    {cl \in [1..MaxPages -> UNION {PageBlocks(k) : k \in 0..(MaxPages - 1)}] :
         \A b \in 1..MaxPages : cl[b].page_idx = b - 1}

\* the configurations of the bounded calls: the default filter or one that
\* admits image and table blocks too
ContextConfigs ==
    [context_window : 0..MaxWindow,
     include_captions : BOOLEAN,
     filter_content_types : {{"text"}, {"text", "image", "table"}},
     max_context_tokens : {MaxContextTokens}]

\* ', '.join(captions)
RECURSIVE JoinCaptions(_)
JoinCaptions(captions) ==
    IF captions = <<>> THEN <<>>
    ELSE IF Len(captions) = 1 THEN captions[1]
    ELSE captions[1] \o <<",", " ">> \o JoinCaptions(Tail(captions))

\* "\n".join(context_texts)
RECURSIVE JoinLines(_)
JoinLines(texts) ==
    IF texts = <<>> THEN <<>>
    ELSE IF Len(texts) = 1 THEN texts[1]
    ELSE texts[1] \o <<"\n">> \o JoinLines(Tail(texts))

\* _extract_text_from_item on the blocks of the bounded lists (their
\* text_level is 0)
ExtractTextFromItem(item, include_captions) ==
    IF item.type = "text" THEN item.text
    ELSE IF item.type = "image" /\ include_captions /\ item.captions # <<>>
    THEN <<"[", "I", "m", "a", "g", "e", ":", " ">> \o JoinCaptions(item.captions) \o <<"]">>
    ELSE IF item.type = "table" /\ include_captions /\ item.captions # <<>>
    THEN <<"[", "T", "a", "b", "l", "e", ":", " ">> \o JoinCaptions(item.captions) \o <<"]">>
    ELSE <<>>

\* f"[Page {item_page}] {text_content}"
PageMarked(item_page, text_content) ==
    <<"[", "P", "a", "g", "e", " ">> \o PageStr(item_page) \o <<"]", " ">> \o text_content

\* start_page = max(0, current_page - window_size)
StartPage(current_page, window_size) == Max(0, current_page - window_size)

\* faulty variant: the window reaches one page further
EndPage_Wide(current_page, window_size) == current_page + window_size + 2

\* end_page = current_page + window_size + 1
EndPage(current_page, window_size) == current_page + window_size + 1

\* `item_type in self.config.filter_content_types`
PassesFilter(item, config) == item.type \in config.filter_content_types

\* the loop of _extract_page_context from block b on
RECURSIVE PageContextLoop(_, _, _, _, _)
PageContextLoop(cl, b, current_page, config, texts) ==
    IF b > Len(cl) THEN texts
    ELSE LET item == cl[b]
             text_content == ExtractTextFromItem(item, config.include_captions)
             in_window ==
                 /\ StartPage(current_page, config.context_window) <= item.page_idx
                 /\ item.page_idx < EndPage(current_page, config.context_window)
         IN  IF in_window /\ PassesFilter(item, config) /\ Strip(text_content) # <<>>
             THEN PageContextLoop(cl, b + 1, current_page, config,
                      Append(texts, IF item.page_idx # current_page
                                    THEN PageMarked(item.page_idx, text_content)
                                    ELSE text_content))
             ELSE PageContextLoop(cl, b + 1, current_page, config, texts)

\* text.rfind(ch): the last 0-based index of ch in text, or -1
RECURSIVE RFind(_, _)
RFind(text, ch) ==
    IF text = <<>> THEN -1
    ELSE IF text[Len(text)] = ch THEN Len(text) - 1
    ELSE RFind(SubSeq(text, 1, Len(text) - 1), ch)

\* `truncated + "..."`
HardTruncated(truncated) == truncated \o <<".", ".", ".">>

\* _truncate_context without a tokenizer; `x > len(truncated) * 0.8` is
\* 5 * x > 4 * len(truncated)
TruncateContext(text, max_context_tokens) ==
    IF text = <<>> THEN <<>>
    ELSE IF Len(text) <= max_context_tokens THEN text
    ELSE LET truncated == SubSeq(text, 1, max_context_tokens)
             last_period == RFind(truncated, ".")
             last_newline == RFind(truncated, "\n")
         IN  IF 5 * last_period > 4 * Len(truncated)
             THEN SubSeq(truncated, 1, last_period + 1)
             ELSE IF 5 * last_newline > 4 * Len(truncated)
             THEN SubSeq(truncated, 1, last_newline)
             ELSE HardTruncated(truncated)

\* which branch of _truncate_context a text takes
TruncateBranch(text, max_context_tokens) ==
    IF text = <<>> THEN "empty"
    ELSE IF Len(text) <= max_context_tokens THEN "fits"
    ELSE LET truncated == SubSeq(text, 1, max_context_tokens)
         IN  IF 5 * RFind(truncated, ".") > 4 * Len(truncated) THEN "sentence"
             ELSE IF 5 * RFind(truncated, "\n") > 4 * Len(truncated) THEN "line"
             ELSE "hard"

NoItemInfo == [page_idx |-> 0]

NoConfig == [context_window |-> 0, include_captions |-> FALSE,
             filter_content_types |-> {}, max_context_tokens |-> 0]

\* the extractor at rest
ContextIdle ==
    /\ epc = "start"
    /\ content_source = <<>>
    /\ current_item_info = NoItemInfo
    /\ context_config = NoConfig
    /\ context_texts = <<>>
    /\ context = <<>>
    /\ extracted = <<>>

\* a call of _extract_page_context, with the _truncate_context it ends in
ExtractPageContext ==
    /\ epc = "start"
    /\ LET texts == PageContextLoop(content_source, 1, current_item_info.page_idx,
                                    context_config, <<>>)
       IN  /\ context_texts' = texts
           /\ context' = JoinLines(texts)
           /\ extracted' = TruncateContext(JoinLines(texts),
                                           context_config.max_context_tokens)
    /\ epc' = "page_context"
    /\ UNCHANGED <<content_source, current_item_info, context_config>>
    /\ UNCHANGED <<pvars, cvars, fvars, bvars, svars, rvars>>

\* the characters of the bounded texts given to _truncate_context
ContextChars == {"a", ".", "\n"}

RECURSIVE TextsUpTo(_)
TextsUpTo(n) ==
    IF n = 0 THEN {<<>>}
    ELSE LET shorter == TextsUpTo(n - 1)
         IN  shorter \cup {Append(t, c) : t \in {u \in shorter : Len(u) = n - 1},
                                           c \in ContextChars}

\* a call of _truncate_context
TruncateContextCall ==
    /\ epc = "start"
    /\ extracted' = TruncateContext(context, context_config.max_context_tokens)
    /\ epc' = "truncated"
    /\ UNCHANGED <<content_source, current_item_info, context_config, context_texts,
                   context>>
    /\ UNCHANGED <<pvars, cvars, fvars, bvars, svars, rvars>>

(***************************************************************************)
(* The ingestion service: WorkspaceManager and the request handlers        *)
(***************************************************************************)
MaxRequests == 3

Workspaces == {"ws1", "ws2"}

NoRequest == [kind |-> "none", workspace |-> "", pc |-> "new", rag |-> 0, lock |-> 0]

\* no entry under the workspace's key (the handlers' parser and parse method
\* are the defaults, so a workspace has one key)
NoEntry == [rag |-> 0, stale |-> FALSE]

\* the service after construction
ServiceIdle ==
    /\ requests = [r \in 1..MaxRequests |-> NoRequest]
    /\ instances = [w \in Workspaces |-> NoEntry]
    /\ locks = [w \in Workspaces |-> 0]
    /\ holder = [l \in 1..MaxRequests |-> 0]
    /\ n_rags = 0
    /\ finalized = {}

\* the locks created so far
LocksCreated == {l \in 1..MaxRequests : \E r \in 1..MaxRequests : requests[r].lock = l}

\* purge_idle: the entries with last_used < cutoff
IdleEntries(inst) == {w \in Workspaces : inst[w].rag # 0 /\ inst[w].stale}

\* _instances after purge_idle
Purged(inst) == [w \in Workspaces |-> IF w \in IdleEntries(inst) THEN NoEntry ELSE inst[w]]

\* `self._locks.pop(workspace, None)`
LocksAfterClear(lks, workspace) == [lks EXCEPT ![workspace] = 0]

\* time passes: every entry's last_used is now older than the idle TTL
TtlElapses ==
    /\ \E w \in Workspaces : instances[w].rag # 0 /\ ~instances[w].stale
    /\ instances' = [w \in Workspaces |->
                        IF instances[w].rag # 0
                        THEN [instances[w] EXCEPT !.stale = TRUE] ELSE instances[w]]
    /\ UNCHANGED <<requests, locks, holder, n_rags, finalized>>
    /\ UNCHANGED <<pvars, cvars, fvars, bvars, evars, rvars>>

\* ingest_workspace up to `async with workspace_manager.lock(workspace)`:
\* get_rag purges the idle entries (finalize_storages, pop), then returns
\* the workspace's instance with last_used refreshed, or creates one
IngestWorkspace(r, workspace) ==
    /\ requests[r].pc = "new"
    /\ LET purged == Purged(instances)
           entry == purged[workspace]
           rag == IF entry.rag # 0 THEN entry.rag ELSE n_rags + 1
       IN  /\ finalized' = finalized \cup {instances[w].rag : w \in IdleEntries(instances)}
           /\ instances' = [purged EXCEPT ![workspace] = [rag |-> rag, stale |-> FALSE]]
           /\ n_rags' = IF entry.rag # 0 THEN n_rags ELSE n_rags + 1
           /\ requests' = [requests EXCEPT ![r] =
                  [kind |-> "ingest", workspace |-> workspace, pc |-> "lock",
                   rag |-> rag, lock |-> 0]]
    /\ UNCHANGED <<locks, holder>>
    /\ UNCHANGED <<pvars, cvars, fvars, bvars, evars, rvars>>

\* workspace_manager.lock(workspace) and the entry of `async with`: the
\* defaultdict returns the workspace's lock or makes a new one; a free lock
\* is taken at once, otherwise the request waits for this lock
EnterLock(r) ==
    /\ requests[r].pc = "lock"
    /\ LET w == requests[r].workspace
           l == IF locks[w] # 0 THEN locks[w]
                ELSE CHOOSE fresh \in 1..MaxRequests :
                         /\ fresh \notin LocksCreated
                         /\ \A other \in 1..MaxRequests :
                                other \notin LocksCreated => fresh <= other
       IN  /\ locks' = [locks EXCEPT ![w] = l]
           /\ IF holder[l] = 0
              THEN /\ holder' = [holder EXCEPT ![l] = r]
                   /\ requests' = [requests EXCEPT ![r].lock = l, ![r].pc = "processing"]
              ELSE /\ holder' = holder
                   /\ requests' = [requests EXCEPT ![r].lock = l, ![r].pc = "waiting"]
    /\ UNCHANGED <<instances, n_rags, finalized>>
    /\ UNCHANGED <<pvars, cvars, fvars, bvars, evars, rvars>>

\* the lock the request waits for was released: the request takes it
LockAcquired(r) ==
    /\ requests[r].pc = "waiting"
    /\ holder[requests[r].lock] = 0
    /\ holder' = [holder EXCEPT ![requests[r].lock] = r]
    /\ requests' = [requests EXCEPT ![r].pc = "processing"]
    /\ UNCHANGED <<instances, locks, n_rags, finalized>>
    /\ UNCHANGED <<pvars, cvars, fvars, bvars, evars, rvars>>

\* the downloads and the process_document_complete calls of the request
\* have ended (returned or raised): `async with` releases the lock
IngestEnd(r) ==
    /\ requests[r].pc = "processing"
    /\ holder' = [holder EXCEPT ![requests[r].lock] = 0]
    /\ requests' = [requests EXCEPT ![r].pc = "done"]
    /\ UNCHANGED <<instances, locks, n_rags, finalized>>
    /\ UNCHANGED <<pvars, cvars, fvars, bvars, evars, rvars>>

\* clear_workspace: the workspace's entries are popped and finalized, and
\* the workspace's lock is popped
ClearWorkspace(workspace) ==
    /\ finalized' = finalized \cup
           (IF instances[workspace].rag # 0 THEN {instances[workspace].rag} ELSE {})
    /\ instances' = [instances EXCEPT ![workspace] = NoEntry]
    /\ locks' = LocksAfterClear(locks, workspace)

\* reset_workspace
ResetWorkspace(r, workspace) ==
    /\ requests[r].pc = "new"
    /\ ClearWorkspace(workspace)
    /\ requests' = [requests EXCEPT ![r] =
           [NoRequest EXCEPT !.kind = "reset", !.workspace = workspace, !.pc = "done"]]
    /\ UNCHANGED <<holder, n_rags>>
    /\ UNCHANGED <<pvars, cvars, fvars, bvars, evars, rvars>>

\* delete_workspace
DeleteWorkspace(r, workspace) ==
    /\ requests[r].pc = "new"
    /\ ClearWorkspace(workspace)
    /\ requests' = [requests EXCEPT ![r] =
           [NoRequest EXCEPT !.kind = "delete", !.workspace = workspace, !.pc = "done"]]
    /\ UNCHANGED <<holder, n_rags>>
    /\ UNCHANGED <<pvars, cvars, fvars, bvars, evars, rvars>>

(***************************************************************************)
(* The belongs_to records of the relationship vector index                 *)
(***************************************************************************)
MaxExtractions == 2

\* the entity names of the bounded calls, as their characters
NameChars == {"a", "b"}

EntityNames == {<<c>> : c \in NameChars} \cup {<<c, d>> : c \in NameChars, d \in NameChars}

RelationIdle ==
    /\ rel_calls = 0
    /\ rel_edges = {}
    /\ rel_vdb = {}

\* relation_vdb_data of one belongs_to relationship, with its key
RelationRecord(entity_name, modal_entity_name) ==
    [id |-> RelationId(entity_name, modal_entity_name),
     src_id |-> entity_name,
     tgt_id |-> modal_entity_name]

\* relationships_vdb.upsert: a record replaces the record under its key
UpsertRelations(vdb, records) ==
    {old \in vdb : \A new \in records : new.id # old.id} \cup records

\* the belongs_to part of one _process_chunk_for_extraction call for the
\* carrier modal_entity_name and the mined entity names maybe_nodes: an
\* edge and a record for every mined entity other than the carrier
ProcessChunkForExtraction(modal_entity_name, maybe_nodes) ==
    /\ rel_calls < MaxExtractions
    /\ rel_calls' = rel_calls + 1
    /\ LET sources == {e \in maybe_nodes : e # modal_entity_name}
       IN  /\ rel_edges' = rel_edges \cup {<<e, modal_entity_name>> : e \in sources}
           /\ rel_vdb' = UpsertRelations(rel_vdb,
                             {RelationRecord(e, modal_entity_name) : e \in sources})
    /\ UNCHANGED <<pvars, cvars, fvars, bvars, evars, svars>>

\* Spec follows whole runs of the document.  It draws an item's failure from
\* one place per kind of effect on the run (before the description call, the
\* description call, a storage call after the chunk was stored, the
\* extraction) and fixes the response and the mined entities of an item
RunFailPoints == {"none", "image_missing", "caption", "node_upsert", "extract"}

RunResponse == "json"

RunMined == {}

Init == PipelineInit /\ CacheIdle /\ cache_configured = TRUE /\ FuncIdle /\ BatchIdle /\ ContextIdle /\ ServiceIdle /\ RelationIdle

Next ==
    \/ \E its \in ItemLists, txt \in BOOLEAN, ok \in BOOLEAN : ParseDocument(its, txt, ok)
    \/ \E its \in ItemLists, txt \in BOOLEAN : InsertContentList(its, txt)
    \/ \E ok \in BOOLEAN : InsertTextContent(ok)
    \/ \E op \in StatusOps : MarkNoMultimodal(op)
    \/ \E l1 \in BOOLEAN, l2 \in BOOLEAN : MultimodalEnter(l1, l2)
    \/ \E fp \in RunFailPoints : ProcessItem(RunResponse, RunMined, fp)
    \/ \E op \in StatusOps : UpdateDocStatus(op)
    \/ \E ok \in BOOLEAN : BatchMerge(ok)
    \/ \E ok \in BOOLEAN : InsertDone(ok)
    \/ Return

Spec == Init /\ [][Next]_vars

\* ResumeSpec follows repeated insert_content_list calls for one document:
\* every call after the first is given the item list of the first
ResumeNext ==
    \/ \E its \in ItemLists, txt \in BOOLEAN :
           /\ runs > 0 => its = multimodal_items
           /\ InsertContentList(its, txt)
    \/ \E ok \in BOOLEAN : InsertTextContent(ok)
    \/ \E op \in StatusOps : MarkNoMultimodal(op)
    \/ \E l1 \in BOOLEAN, l2 \in BOOLEAN : MultimodalEnter(l1, l2)
    \/ \E fp \in RunFailPoints : ProcessItem(RunResponse, RunMined, fp)
    \/ \E op \in StatusOps : UpdateDocStatus(op)
    \/ \E ok \in BOOLEAN : BatchMerge(ok)
    \/ \E ok \in BOOLEAN : InsertDone(ok)
    \/ Return

ResumeSpec == Init /\ [][ResumeNext]_vars

\* CacheSpec follows parse_document calls on one file
PipelineIdle ==
    /\ pc = "idle"
    /\ runs = 0
    /\ modal_processors = InitializeProcessors(TRUE, TRUE, TRUE)
    /\ multimodal_items = <<>>
    /\ text_nonempty = FALSE
    /\ text_inserts = 0
    /\ idx = 1
    /\ all_chunk_results = <<>>
    /\ multimodal_chunk_ids = <<>>
    /\ item_outcomes = <<>>
    /\ doc_status = NoStatus
    /\ stores = EmptyStores
    /\ calls = NoCalls
    /\ status_lookup = "none"
    /\ status_exc = FALSE
    /\ merge_arg = <<>>

CacheInit == PipelineIdle /\ CacheIdle /\ cache_configured \in BOOLEAN /\ FuncIdle /\ BatchIdle /\ ContextIdle /\ ServiceIdle /\ RelationIdle

\* the calls of CacheSpec name the file by its relative path, leave
\* parse_method to the configuration and pass the allow-listed option or
\* no option
CacheRunKwargs == {kw \in KwargSets : DOMAIN kw \subseteq {"lang"}}

CacheNext ==
    \/ \E kw \in CacheRunKwargs : ParseDocumentBegin("doc.pdf", "None", kw)
    \/ \E ok \in BOOLEAN : GetCachedResult(ok)
    \/ \E o \in ParserOutcomes : RunParser(o)
    \/ \E op \in StoreOps : StoreCachedResult(op)
    \/ ParseDocumentEnd
    \/ ModifyFile
    \/ \E p \in Parsers : ChangeConfig(p)

CacheSpec == CacheInit /\ [][CacheNext]_vars

\* the paths of the calls of DocIdSpec: the two spellings of the file's path
\* and a second name (a hard link) of the same file
DocIdPaths == FilePaths \cup {"/work/link.pdf"}

\* DocIdSpec follows parse_document calls that name the file by any of its
\* paths, while the file changes between calls
DocIdNext ==
    \/ \E f \in DocIdPaths, kw \in CacheRunKwargs : ParseDocumentBegin(f, "None", kw)
    \/ \E ok \in BOOLEAN : GetCachedResult(ok)
    \/ \E o \in ParserOutcomes : RunParser(o)
    \/ \E op \in StoreOps : StoreCachedResult(op)
    \/ ParseDocumentEnd
    \/ ModifyFile

DocIdSpec == CacheInit /\ [][DocIdNext]_vars

\* KeySpec follows one parse_document call with any of the bounded
\* arguments, on any state of the file and of the configuration
KeyInit ==
    /\ PipelineIdle
    /\ ppc = "idle"
    /\ n_calls = MaxCalls - 1
    /\ file_mtime \in Mtimes
    /\ config_parser \in Parsers
    /\ cache_configured \in BOOLEAN
    /\ parse_cache = {}
    /\ call = NoCall
    /\ cache_key = NoKey
    /\ lookup = "none"
    /\ parser_calls = <<>>
    /\ content_list = <<>>
    /\ cache_raised = {}
    /\ result = NoResult
    /\ quiet = TRUE
    /\ prev = NoPrev
    /\ FuncIdle
    /\ BatchIdle
    /\ ContextIdle
    /\ ServiceIdle
    /\ RelationIdle

KeyNext ==
    \/ \E f \in FilePaths, m \in ParseMethodArgs, kw \in KwargSets :
           ParseDocumentBegin(f, m, kw)
    \/ \E ok \in BOOLEAN : GetCachedResult(ok)
    \/ \E o \in ParserOutcomes : RunParser(o)
    \/ \E op \in StoreOps : StoreCachedResult(op)
    \/ ParseDocumentEnd

KeySpec == KeyInit /\ [][KeyNext]_vars

\* process_document_complete up to its call of parse_document
ProcessDocumentComplete ==
    /\ pc = "idle"
    /\ ppc = "idle"
    /\ runs = 0
    /\ runs' = runs + 1
    /\ RunReset
    /\ multimodal_items' = <<>>
    /\ text_nonempty' = FALSE
    /\ pc' = "parse"
    /\ UNCHANGED <<modal_processors, doc_status, stores>>
    /\ UNCHANGED <<cvars, fvars, bvars, evars, svars, rvars>>

\* process_document_complete after parse_document has ended: an exception
\* of parse_document is not caught; a returned content list is separated
\* into its text and its modal items (none of either in an empty list)
AfterParseDocument(its, txt) ==
    /\ pc = "parse"
    /\ ppc = "idle"
    /\ n_calls = runs
    /\ IF prev.result = NoResult
       THEN /\ its = <<>> /\ txt = FALSE
            /\ pc' = "raised"
       ELSE /\ prev.result[1] = <<>> => (its = <<>> /\ txt = FALSE)
            /\ pc' = "insert_text"
    /\ multimodal_items' = its
    /\ text_nonempty' = txt
    /\ UNCHANGED <<runs, modal_processors, text_inserts, idx, all_chunk_results,
                   multimodal_chunk_ids, item_outcomes, doc_status, stores, calls,
                   status_lookup, status_exc, merge_arg>>
    /\ UNCHANGED <<cvars, fvars, bvars, evars, svars, rvars>>

\* DocSpec follows one process_document_complete call on a new document:
\* parse_document with its parse cache, then the pipeline on what it returned
DocInit ==
    /\ PipelineInit
    /\ CacheIdle
    /\ cache_configured \in BOOLEAN
    /\ FuncIdle
    /\ BatchIdle
    /\ ContextIdle
    /\ ServiceIdle
    /\ RelationIdle

DocNext ==
    \/ ProcessDocumentComplete
    \/ \E kw \in CacheRunKwargs :
           pc = "parse" /\ n_calls < runs /\ ParseDocumentBegin("doc.pdf", "None", kw)
    \/ \E ok \in BOOLEAN : GetCachedResult(ok)
    \/ \E o \in ParserOutcomes : RunParser(o)
    \/ \E op \in StoreOps : StoreCachedResult(op)
    \/ ParseDocumentEnd
    \/ \E its \in ItemLists, txt \in BOOLEAN : AfterParseDocument(its, txt)
    \/ \E ok \in BOOLEAN : InsertTextContent(ok)
    \/ \E op \in StatusOps : MarkNoMultimodal(op)
    \/ \E l1 \in BOOLEAN, l2 \in BOOLEAN : MultimodalEnter(l1, l2)
    \/ \E fp \in RunFailPoints : ProcessItem(RunResponse, RunMined, fp)
    \/ \E op \in StatusOps : UpdateDocStatus(op)
    \/ \E ok \in BOOLEAN : BatchMerge(ok)
    \/ \E ok \in BOOLEAN : InsertDone(ok)
    \/ Return

DocSpec == DocInit /\ [][DocNext]_vars

\* ItemSpec follows one run of insert_content_list on a new document, with
\* every place an item can raise at, every response and every outcome of
\* the entity extraction
ItemInit ==
    /\ PipelineIdle
    /\ CacheIdle
    /\ cache_configured = TRUE
    /\ FuncIdle
    /\ BatchIdle
    /\ ContextIdle
    /\ ServiceIdle
    /\ RelationIdle

ItemNext ==
    \/ \E its \in ItemLists, txt \in BOOLEAN :
           runs = 0 /\ InsertContentList(its, txt)
    \/ \E ok \in BOOLEAN : InsertTextContent(ok)
    \/ \E op \in StatusOps : MarkNoMultimodal(op)
    \/ \E l1 \in BOOLEAN, l2 \in BOOLEAN : MultimodalEnter(l1, l2)
    \/ \E r \in Responses, m \in SUBSET MinedNames, fp \in FailPoints :
           ProcessItem(r, m, fp)
    \/ \E op \in StatusOps : UpdateDocStatus(op)
    \/ \E ok \in BOOLEAN : BatchMerge(ok)
    \/ \E ok \in BOOLEAN : InsertDone(ok)
    \/ Return

ItemSpec == ItemInit /\ [][ItemNext]_vars

\* SeparateSpec follows one classification of any bounded content list and
\* the positions the item loop hands on for its modal items
SeparateInit == PipelineIdle /\ CacheIdle /\ cache_configured = TRUE /\ FuncIdle /\ BatchIdle /\ ContextIdle /\ ServiceIdle /\ RelationIdle

SeparateNext ==
    \/ \E cl \in ContentLists : SeparateContent(cl)
    \/ ExtractItemContext

SeparateSpec == SeparateInit /\ [][SeparateNext]_vars

\* ResponseSpec follows one call of a response parser on any bounded response
ResponseNext ==
    \E parser \in ResponseParsers, response \in ResponseTexts,
       entity_name \in EntityNameArgs :
        ParseResponse(parser, response, entity_name)

ResponseSpec == SeparateInit /\ [][ResponseNext]_vars

\* ContextSpec follows one call of _extract_page_context on any bounded
\* content list, item page and configuration
ContextInit ==
    /\ PipelineIdle /\ CacheIdle /\ cache_configured = TRUE /\ FuncIdle /\ BatchIdle
    /\ ServiceIdle /\ RelationIdle
    /\ epc = "start"
    /\ content_source \in PagedLists
    /\ current_item_info \in [page_idx : 0..(MaxPages - 1)]
    /\ context_config \in ContextConfigs
    /\ context_texts = <<>>
    /\ context = <<>>
    /\ extracted = <<>>

ContextSpec == ContextInit /\ [][ExtractPageContext]_vars

\* TruncateSpec follows one call of _truncate_context on any bounded text
\* and budget
TruncateInit ==
    /\ PipelineIdle /\ CacheIdle /\ cache_configured = TRUE /\ FuncIdle /\ BatchIdle
    /\ ServiceIdle /\ RelationIdle
    /\ epc = "start"
    /\ content_source = <<>>
    /\ current_item_info = NoItemInfo
    /\ context_config \in [context_window : {0}, include_captions : {FALSE},
                           filter_content_types : {{}},
                           max_context_tokens : 0..MaxBudget]
    /\ context_texts = <<>>
    /\ context \in TextsUpTo(MaxChars)
    /\ extracted = <<>>

TruncateSpec == TruncateInit /\ [][TruncateContextCall]_vars

\* ServiceSpec follows up to MaxRequests ingest, reset and delete requests
\* on the workspaces under every interleaving of their steps, while time
\* passes
ServiceNext ==
    \/ \E r \in 1..MaxRequests, w \in Workspaces : IngestWorkspace(r, w)
    \/ \E r \in 1..MaxRequests : EnterLock(r)
    \/ \E r \in 1..MaxRequests : LockAcquired(r)
    \/ \E r \in 1..MaxRequests : IngestEnd(r)
    \/ \E r \in 1..MaxRequests, w \in Workspaces : ResetWorkspace(r, w)
    \/ \E r \in 1..MaxRequests, w \in Workspaces : DeleteWorkspace(r, w)
    \/ TtlElapses

ServiceSpec == SeparateInit /\ [][ServiceNext]_vars

\* RelationSpec follows up to MaxExtractions calls of
\* _process_chunk_for_extraction, each with any carrier and any mined names
RelationNext ==
    \E modal_entity_name \in EntityNames, maybe_nodes \in SUBSET EntityNames :
        ProcessChunkForExtraction(modal_entity_name, maybe_nodes)

RelationSpec == SeparateInit /\ [][RelationNext]_vars

\* FolderSpec follows one call of process_folder_complete on any bounded
\* folder, under every interleaving of its process_single_file tasks
FolderNext ==
    \/ \E exists \in BOOLEAN, n \in FileCounts, mw \in WorkerCounts :
           ProcessFolderComplete(exists, n, mw)
    \/ \E f \in 1..MaxFiles : ProcessSingleFileEnter(f)
    \/ \E f \in 1..MaxFiles : ProcessSingleFileSuccess(f)
    \/ \E f \in 1..MaxFiles, e \in Errors : ProcessSingleFileExcept(f, e)
    \/ \E f \in 1..MaxFiles : ProcessSingleFileHang(f)
    \/ GatherReturns

FolderSpec == SeparateInit /\ [][FolderNext]_vars

\* the event loop runs every task that can run: a task waiting at a free
\* semaphore is admitted, a document's call that is not stuck in an external
\* call ends, and gather returns once every task has ended
FolderFairness ==
    /\ \A f \in 1..MaxFiles : WF_vars(ProcessSingleFileEnter(f))
    /\ \A f \in 1..MaxFiles :
           WF_vars(ProcessSingleFileSuccess(f)
                   \/ (\E e \in Errors : ProcessSingleFileExcept(f, e))
                   \/ ProcessSingleFileHang(f))
    /\ WF_vars(GatherReturns)

FolderFairSpec == SeparateInit /\ [][FolderNext]_vars /\ FolderFairness

\* RagBatchSpec follows one call of process_documents_with_rag_batch after any
\* bounded outcome of its parse stage
RagBatchNext ==
    \/ \E succ \in SuccessfulFileLists : ProcessDocumentsWithRagBatch(succ)
    \/ RagProcessDocument
    \/ \E outcome \in {"returns"} \cup Errors : RagDocumentEnd(outcome)
    \/ RagReturn

RagBatchSpec == SeparateInit /\ [][RagBatchNext]_vars

(***************************************************************************)
(* Properties of the document pipeline (checked under Spec)                *)
(***************************************************************************)
\* the current run's item loop has handled every item
LoopFinished == Len(item_outcomes) = Len(multimodal_items)

\* the items of the current run that produced a chunk
ChunkedItems == {k \in 1..Len(item_outcomes) : item_outcomes[k] = "none"}

\* this run wrote the DocumentStatus from _process_multimodal_content
WroteStatus == calls.status_write > 0

\* the persisted record passes the resumption test as the specification words it
RecordedComplete ==
    /\ doc_status.present
    /\ doc_status.multimodal_processed
    /\ Len(doc_status.multimodal_chunks_list) >= Len(multimodal_items)

\* every processor of the default configuration is registered
AllProcessorsRegistered == modal_processors = InitializeProcessors(TRUE, TRUE, TRUE)

C10_OneMergeOverAllResults ==
    /\ calls.item_merge = 0
    /\ calls.merge <= 1
    /\ calls.flush <= calls.merge_done
    /\ calls.merge = 1 =>
          (LoopFinished /\ merge_arg = all_chunk_results /\ all_chunk_results # <<>>)
    /\ Len(all_chunk_results) = Cardinality(ChunkedItems)
    /\ \A k \in 1..Len(all_chunk_results) :
          all_chunk_results[k].chunk = multimodal_chunk_ids[k]
    /\ pc = "done" =>
          /\ calls.merge = (IF all_chunk_results # <<>> THEN 1 ELSE 0)
          /\ calls.flush = calls.merge

\* a run that merged the results of all its items at once and flushed
C10_Witness ==
    /\ pc = "done"
    /\ calls.merge = 1
    /\ calls.flush = 1
    /\ Len(merge_arg) = MaxItems
    /\ Len(multimodal_items) = MaxItems

(***************************************************************************)
(* Properties of parse_document and the parse cache                        *)
(***************************************************************************)
\* the configuration _get_cached_result compares an entry with
CurrentConfig == ParseConfig(config_parser, call.parse_method, call.kwargs)

\* C6: the lookup returns a cached (content list, doc id) pair only when the
\* stored mtime equals the file's mtime and the stored parse configuration
\* equals the current one, both taken at the lookup; with an entry that
\* differs in either, it returns no pair and parse_document goes on to
\* invoke the parser.
C6_HitOnlyWhenEntryValid ==
    [][/\ (ppc = "lookup" /\ ppc' # "lookup") =>
            LET found == GetById(parse_cache, cache_key)
            IN  /\ result' # NoResult =>
                      \E e \in found :
                          /\ e.mtime = file_mtime
                          /\ e.parse_config = CurrentConfig
                          /\ result' = <<e.content_list, e.doc_id>>
                /\ (\E e \in found : e.mtime # file_mtime \/ e.parse_config # CurrentConfig)
                      => (result' = NoResult /\ ppc' = "parse")
       /\ (ppc = "parse" /\ ppc' # "parse") => parser_calls' # <<>>
      ]_vars

\* a call found an entry under its key, saw that the file had been modified
\* since the key was generated, and parsed the file again
C6_Witness ==
    /\ ppc = "store"
    /\ lookup = "file_modified"
    /\ GetById(parse_cache, cache_key) # {}
    /\ parser_calls # <<>>
    /\ content_list = ParserOutput(file_mtime)

\* the current call and the previous one both returned, without a file or
\* configuration change during the call and without a cache exception, with
\* the parse cache configured
TwoCleanCalls ==
    /\ ppc = "returned"
    /\ cache_configured
    /\ prev.clean
    /\ quiet
    /\ cache_raised = {}

\* the mtime or an allow-listed option differs between the two calls
ChangedBetweenCalls ==
    \/ cache_key.mtime # prev.cache_key.mtime
    \/ cache_key.relevant_kwargs # prev.cache_key.relevant_kwargs

\* C7 as stated: the second of two calls with the same mtime and
\* configuration returns the first call's content list without invoking the
\* parser, and a changed mtime or allow-listed option makes the second call
\* invoke the parser.
C7_SecondCallServedFromCache ==
    TwoCleanCalls =>
        /\ cache_key = prev.cache_key =>
               (parser_calls = <<>> /\ result = prev.result)
        /\ ChangedBetweenCalls => parser_calls # <<>>

\* C7, amended: the second call is served from the cache when the first
\* call returned a non-empty content list; after a change of the mtime or
\* of an allow-listed option the second call invokes the parser unless the
\* cache holds an entry stored for the new mtime and options, which it
\* returns.
C7_ServedFromCacheWhenComplete ==
    TwoCleanCalls =>
        /\ (cache_key = prev.cache_key /\ prev.result[1] # <<>>) =>
               (parser_calls = <<>> /\ result = prev.result)
        /\ ChangedBetweenCalls =>
               \/ parser_calls # <<>>
               \/ \E e \in GetById(parse_cache, cache_key) :
                      /\ e.mtime = cache_key.mtime
                      /\ e.parse_config.relevant_kwargs = cache_key.relevant_kwargs
                      /\ e.content_list # <<>>
                      /\ result = <<e.content_list, e.doc_id>>

\* the second call was served from the cache
C7_Witness ==
    /\ TwoCleanCalls
    /\ cache_key = prev.cache_key
    /\ lookup = "hit"
    /\ parser_calls = <<>>
    /\ result = prev.result
    /\ result[1] = ParserOutput(file_mtime)

\* two option sets agree on every allow-listed option
SameAllowListed(kw1, kw2) ==
    \A k \in AllowList :
        /\ k \in DOMAIN kw1 <=> k \in DOMAIN kw2
        /\ k \in DOMAIN kw1 => kw1[k] = kw2[k]

\* C8: the key of a call equals the key of every call on the same absolute
\* path, mtime, parser and parse method whose options agree on the
\* allow-listed ones, whatever the other options are; and every parser
\* invocation of the call receives all of the call's options.
C8_KeyIgnoresUnlistedKwargs ==
    ppc # "idle" =>
        /\ \A f \in FilePaths, kw \in KwargSets :
               (Absolute(f) = Absolute(call.file_path) /\ SameAllowListed(kw, call.kwargs))
                   => GenerateCacheKey(f, call.mtime, call.parser,
                                       call.parse_method, kw) = cache_key
        /\ \A i \in 1..Len(parser_calls) : parser_calls[i].kwargs = call.kwargs

\* a call with the unlisted option, by the relative path: its key is that of
\* the call without the option by the absolute path, and the parser got
\* the option
C8_Witness ==
    /\ ppc = "store"
    /\ call.file_path = "doc.pdf"
    /\ DOMAIN call.kwargs = {"lang", "vlm_url"}
    /\ cache_key = GenerateCacheKey("/work/doc.pdf", call.mtime, call.parser,
                                    call.parse_method, [k \in {"lang"} |-> "v"])
    /\ Len(parser_calls) = 1
    /\ "vlm_url" \in DOMAIN parser_calls[1].kwargs

\* what C9 says of every state of a call: only the parser's exception leaves
\* parse_document, a failed lookup is followed by the parser, and a call
\* that parsed returns the parsed pair
CacheErrorsContained ==
    /\ ppc = "raised" => (Len(parser_calls) = 2 /\ result = NoResult)
    /\ "get_by_id" \in cache_raised =>
           /\ lookup = "error"
           /\ ppc \in {"parse", "store", "returned", "raised"}
           /\ ppc \in {"store", "returned"} => parser_calls # <<>>
    /\ (ppc = "returned" /\ lookup # "hit") =>
           (parser_calls # <<>> /\ result = <<content_list, DocId(content_list)>>)

\* the step of _store_cached_result in which op raised
StoreRaised(op) == ppc = "store" /\ ppc' = "returned" /\ op \in cache_raised'

\* C9 as stated: cache exceptions are contained, and a store in which
\* upsert or index_done_callback raised leaves the cache as it was.
C9_FailedStoreIsNoOp ==
    [][/\ CacheErrorsContained'
       /\ (StoreRaised("upsert") \/ StoreRaised("index_done_callback"))
              => parse_cache' = parse_cache
      ]_vars

\* C9, amended: cache exceptions are contained; a store whose upsert raised
\* leaves the cache as it was, and a store whose index_done_callback raised
\* leaves the upserted entry under the call's key.
C9_CacheErrorsContained ==
    [][/\ CacheErrorsContained'
       /\ StoreRaised("upsert") => parse_cache' = parse_cache
       /\ StoreRaised("index_done_callback") =>
              \E e \in GetById(parse_cache', cache_key) :
                  e.content_list = content_list
      ]_vars

\* the lookup raised, the parser ran, the store's flush raised, and the call
\* returned what the parser produced
C9_Witness ==
    /\ ppc = "returned"
    /\ cache_raised = {"get_by_id", "index_done_callback"}
    /\ Len(parser_calls) = 1
    /\ content_list # <<>>
    /\ result = <<content_list, DocId(content_list)>>

(***************************************************************************)
(* Properties of the per-item processing                                   *)
(***************************************************************************)
\* C11: in batch mode no belongs_to edge is in the knowledge graph or in the
\* relationship vector index before the run's merge has completed; until
\* then the edges are only in the deferred results (checked under ItemSpec,
\* whose document starts with empty stores).
C11_EdgesDeferredToMerge ==
    (BatchMode /\ calls.merge_done = 0) =>
        (stores.graph_edges = {} /\ stores.relationships_vdb = {})

\* the items of the run a processor is registered for
ItemsWithProcessor ==
    {k \in 1..Len(multimodal_items) :
         GetProcessorForType(modal_processors, multimodal_items[k])}

\* C12: an exception raised while one modal item is processed is caught at
\* that item: the item loop never leaves the call by raising, it goes on to
\* the next item, and when it ends every item has been handled and the
\* processor was called for every item that has one.
C12_ItemExceptionsContained ==
    [][pc = "items" =>
          /\ pc' \in {"items", "update_status"}
          /\ Len(item_outcomes') = Len(item_outcomes) + 1
          /\ pc' = "update_status" =>
                 /\ Len(item_outcomes') = Len(multimodal_items)
                 /\ calls'.processor = Cardinality(ItemsWithProcessor)
      ]_vars

\* the first item raised in a storage call and the last item was still
\* processed and produced its chunk
C12_Witness ==
    /\ pc = "update_status"
    /\ Len(multimodal_items) = MaxItems
    /\ item_outcomes[1] = "node_upsert"
    /\ item_outcomes[MaxItems] = "none"
    /\ calls.processor = MaxItems
    /\ Len(multimodal_chunk_ids) = MaxItems - 1

\* C13: an item whose processing raised contributes nothing: in the first
\* run on a document in which no item produced a chunk, no chunk record,
\* graph node, vector-index entry or edge is in the stores, and no chunk id
\* is recorded in the DocumentStatus.
C13_FailedItemContributesNothing ==
    (runs = 1 /\ pc \notin {"idle", "insert_text"} /\ ChunkedItems = {}) =>
        /\ stores = EmptyStores
        /\ doc_status.multimodal_chunks_list = <<>>

(***************************************************************************)
(* Properties of process_document_complete (checked under DocSpec)         *)
(***************************************************************************)
\* the selected parser and the MinerU fallback both raised in the current
\* parse_document call
BothParsersRaised ==
    /\ Len(parser_calls) = 2
    /\ parser_calls[1].raised
    /\ parser_calls[2].raised

\* the parse_document call of the run has ended by raising
ParseFailedRun ==
    /\ runs = 1
    /\ n_calls = runs
    /\ ppc = "idle"
    /\ prev.result = NoResult

\* C14: when the selected parser and the MinerU fallback both raise,
\* parse_document raises, process_document_complete raises in turn, no text
\* and no modal item is separated for insertion or processing, no call of
\* _process_multimodal_content is made, and the DocumentStatus, the stores
\* and the parse cache are left as they were.
C14_ParseFailureIsFatal ==
    /\ BothParsersRaised =>
           (ppc = "raised" /\ pc = "parse" /\ result = NoResult /\ parse_cache = {})
    /\ ParseFailedRun =>
           /\ pc \in {"parse", "raised", "idle"}
           /\ calls = NoCalls
           /\ doc_status = NoStatus
           /\ stores = EmptyStores
           /\ parse_cache = {}
           /\ multimodal_items = <<>>
           /\ text_nonempty = FALSE

\* the lookup missed, both parsers raised, and the document call has raised
C14_Witness ==
    /\ ParseFailedRun
    /\ pc = "raised"
    /\ cache_configured
    /\ prev.cache_key # NoKey
    /\ parse_cache = {}
    /\ doc_status = NoStatus

(***************************************************************************)
(* Properties of the response parsers (checked under ResponseSpec)         *)
(***************************************************************************)
\* C15: for every response the parsers return without raising, with a
\* description and an entity that has entity_name, entity_type and summary;
\* on fallback the description is the raw response and, without a name
\* override, the entity name is '<type>_<hash of response>'.
C15_ParsersNeverRaise ==
    fpc = "parsed" =>
        /\ parsed.raised = "no"
        /\ parsed.description # <<>>
        /\ parsed.entity.entity_name # <<>>
        /\ parsed.entity.entity_type # <<>>
        /\ parsed.entity.summary # <<>>
        /\ parsed.fallback =>
               /\ parsed.description = <<"response", response_in.response>>
               /\ response_in.entity_name = <<>> =>
                      parsed.entity.entity_name =
                          <<FallbackType(response_in.parser), "_",
                            <<"md5", response_in.response>>>>

(***************************************************************************)
(* Properties of the processors' process_multimodal_content                *)
(***************************************************************************)
\* C16: every processor call that completed (returned to the item loop,
\* with the triple or through the processor's own error fallback) has called
\* _create_entity_and_chunk exactly once.
C16_CompletionCreatesOnce ==
    calls.returned_create = calls.returned

\* C17: the image processor, given an item whose image file is missing or
\* cannot be encoded, raises to its caller, without a description call and
\* without a write to the stores.
C17_MissingImageFailsFast ==
    [][(/\ pc = "items"
        /\ Len(item_outcomes') = Len(item_outcomes) + 1
        /\ item_outcomes'[Len(item_outcomes')] = "image_missing") =>
           /\ calls'.raised = calls.raised + 1
           /\ calls'.returned = calls.returned
           /\ calls'.caption = calls.caption
           /\ calls'.create = calls.create
           /\ stores' = stores
      ]_vars

(***************************************************************************)
(* Properties of the classification (checked under SeparateSpec)           *)
(***************************************************************************)
\* the block has a type tag and the tag is not exactly "text"
TaggedNonText(block) == block.type \notin {"text", "none"}

\* the text consists of whitespace only (or is empty)
Blank(text) == \A i \in 1..Len(text) : text[i] \in Whitespace

\* the texts of a sequence of blocks
TextsOf(bs) == [k \in 1..Len(bs) |-> bs[k].text]

\* number of blocks of a list that satisfy Test
CountBlocks(bs, Test(_)) == Len(SelectSeq(bs, Test))

\* C18 as stated: no block is dropped: every block contributes to the text
\* stream or appears in the modal item list, and never both.
C18_NoBlockDropped ==
    fpc = "separated" =>
        /\ Len(separated.text_parts) + Len(separated.multimodal_items) = Len(blocks)
        /\ \A k \in 1..Len(separated.multimodal_items) :
               separated.multimodal_items[k].type # "text"

\* C18 amended: every block is a modal item, a part of the text stream, or a
\* text block whose text is empty or whitespace only, which is dropped; the
\* parts of the text are the non-blank texts of the text blocks, in order,
\* and no modal item is a text block.
C18_OnlyBlankTextDropped ==
    fpc = "separated" =>
        /\ separated.text_parts =
               TextsOf(SelectSeq(blocks,
                   LAMBDA b : ~TaggedNonText(b) /\ ~Blank(b.text)))
        /\ Len(separated.text_parts) + Len(separated.multimodal_items)
               + CountBlocks(blocks, LAMBDA b : ~TaggedNonText(b) /\ Blank(b.text))
             = Len(blocks)
        /\ \A k \in 1..Len(separated.multimodal_items) :
               TaggedNonText(separated.multimodal_items[k])

\* a list with a blank text block, a text block and a modal block: the
\* blank one is in neither result
C18_Witness ==
    /\ fpc = "separated"
    /\ Len(blocks) = 3
    /\ blocks[1].type = "text" /\ blocks[1].text = <<" ">>
    /\ separated.text_parts = <<<<"a">>>>
    /\ Len(separated.multimodal_items) = 1

\* C19 as stated: the modal item list is the subsequence of the blocks whose
\* type tag is not exactly "text", in stream order, and has their number as
\* its length.
C19_ModalItemsAreNonTextBlocks ==
    fpc = "separated" =>
        /\ separated.multimodal_items = SelectSeq(blocks, LAMBDA b : b.type # "text")
        /\ Len(separated.multimodal_items)
               = CountBlocks(blocks, LAMBDA b : b.type # "text")

\* C19 amended: the same over the blocks that have a type tag; a block
\* without a type tag is classified as text.
C19_ModalItemsAreTaggedNonTextBlocks ==
    fpc = "separated" =>
        /\ separated.multimodal_items = SelectSeq(blocks, TaggedNonText)
        /\ Len(separated.multimodal_items) = CountBlocks(blocks, TaggedNonText)

\* a list whose blocks are a block without a type tag, a "Text" block and
\* an image: the last two are the modal items, in this order
C19_Witness ==
    /\ fpc = "separated"
    /\ Len(blocks) = 3
    /\ blocks[1].type = "none"
    /\ blocks[2].type = "Text"
    /\ blocks[3].type = "image"
    /\ separated.multimodal_items = <<blocks[2], blocks[3]>>

\* the 0-based indices in the stream of the blocks that are modal items
StreamIndices(bs) ==
    SelectSeq([k \in 1..Len(bs) |-> k - 1], LAMBDA i : TaggedNonText(bs[i + 1]))

\* the 0-based indices within ContextWindow of index p in a stream of n
\* blocks, p itself excluded, in order
Neighbours(p, n) ==
    SelectSeq([k \in 1..n |-> k - 1],
              LAMBDA i : i # p /\ i >= p - ContextWindow /\ i <= p + ContextWindow)

\* C20: the item_info of each modal item carries the item's page index and
\* its ordinal position in the content-block stream, and the chunk-mode
\* window is made of the blocks next to the item in the stream, without the
\* item itself.
C20_PositionIsStreamPosition ==
    \A k \in 1..Len(contexts) :
        LET p == StreamIndices(blocks)[k]
        IN  /\ contexts[k].item_info.page_idx = blocks[p + 1].page_idx
            /\ contexts[k].item_info.index = p
            /\ contexts[k].window = Neighbours(p, Len(blocks))

(***************************************************************************)
(* Properties of process_folder_complete (checked under FolderSpec and     *)
(* FolderFairSpec)                                                         *)
(***************************************************************************)
\* C21: while process_folder_complete runs, at most max_workers documents are
\* inside process_document_complete, however many files were discovered
C21_AtMostMaxWorkersInside ==
    bpc = "gather" => Cardinality(InFlight) <= max_workers

C21_Witness ==
    /\ bpc = "gather"
    /\ max_workers >= 1
    /\ Cardinality(InFlight) = max_workers
    /\ \E f \in 1..Len(tasks) : tasks[f].pos = "created"

\* the files whose processing raised
FailedTasks == {f \in 1..Len(tasks) : tasks[f].pos = "failed"}

\* C22: no exception of a file reaches the caller; every returned report has
\* total = N and success + failed = total; when exactly one file raised,
\* success = N - 1, failed = 1 and failed_files holds that file with its
\* error string
C22_OneFailureReported ==
    /\ bpc = "raised" => tasks = <<>>
    /\ (bpc = "returned" /\ report.kind = "dict") =>
           /\ report.total = Len(files_to_process)
           /\ report.success + report.failed = report.total
           /\ \A f \in FailedTasks :
                  FailedTasks = {f} =>
                      /\ report.success = Len(files_to_process) - 1
                      /\ report.failed = 1
                      /\ report.failed_files = << <<files_to_process[f], tasks[f].error>> >>

C22_Witness ==
    /\ bpc = "returned"
    /\ report.kind = "dict"
    /\ Len(files_to_process) >= 2
    /\ Cardinality(FailedTasks) = 1

\* C23: every call on an existing directory returns the report dict, and the
\* call raises only for a configuration error (the path, or a negative
\* max_workers)
C23_ReportForEveryExistingDirectory ==
    /\ bpc = "returned" => report.kind = "dict"
    /\ bpc = "raised" => (~folder_exists \/ max_workers < 0)

\* a file's processing is stuck in an external call that never returns
SomeHung == \E f \in 1..Len(tasks) : tasks[f].pos = "hung"

\* the call has returned its report with every discovered file counted as a
\* success or recorded in failed_files
BatchCompleted ==
    /\ bpc = "returned"
    /\ \A f \in 1..Len(tasks) :
           \/ tasks[f].pos = "succeeded"
           \/ /\ tasks[f].pos = "failed"
              /\ \E k \in 1..Len(report.failed_files) :
                     report.failed_files[k][1] = files_to_process[f]
    /\ report.success = Cardinality({f \in 1..Len(tasks) : tasks[f].pos = "succeeded"})

\* C24 as stated: with a fair event loop and no call that never returns, the
\* batch completes with every discovered file counted
C24_BatchCompletes ==
    (bpc = "gather") ~> (BatchCompleted \/ SomeHung)

\* C24 amended: the same, when max_workers is at least 1
C24_BatchCompletesWithAPermit ==
    (bpc = "gather" /\ max_workers >= 1) ~> (BatchCompleted \/ SomeHung)

C24_Witness ==
    /\ BatchCompleted
    /\ max_workers >= 1
    /\ Len(files_to_process) > max_workers
    /\ FailedTasks # {}
    /\ \E f \in 1..Len(tasks) : tasks[f].pos = "succeeded"

\* C25: a file whose external call does not return within the budget is
\* recorded as failed, so it does not keep its admission slot
C25_TimedOutFileRecordedFailed ==
    \A f \in 1..MaxFiles :
        (f <= Len(tasks) /\ tasks[f].pos = "hung")
            ~> (f <= Len(tasks) /\ tasks[f].pos = "failed")

(***************************************************************************)
(* Properties of process_documents_with_rag_batch (checked under           *)
(* RagBatchSpec)                                                           *)
(***************************************************************************)
\* the distinct files of a list
FilesOf(files) == {files[k] : k \in 1..Len(files)}

\* the last call made for a file
LastCallFor(file_path) ==
    LET ks == {k \in 1..Len(rag_calls) : rag_calls[k].file_path = file_path}
    IN  rag_calls[CHOOSE k \in ks : \A j \in ks : j <= k]

\* C26: process_document_complete is called only for the files of
\* successful_files, in list order and one call at a time; an exception of a
\* call never leaves the loop and the files after it are still processed;
\* at return every successfully parsed file has the entry of its last call
\* (with the error string when it raised) and successful_rag_files +
\* failed_rag_files is the number of successfully parsed files
C26_RagBatchCaptureAndContinue ==
    /\ rpc # "raised"
    /\ Len(rag_calls) <= Len(successful_files)
    /\ \A k \in 1..Len(rag_calls) : rag_calls[k].file_path = successful_files[k]
    /\ \A k \in 1..Len(rag_calls) :
           rag_calls[k].outcome = "pending" => (k = Len(rag_calls) /\ rpc = "in_document")
    /\ rpc = "returned" =>
           /\ Len(rag_calls) = Len(successful_files)
           /\ DOMAIN rag_results = FilesOf(successful_files)
           /\ \A file_path \in DOMAIN rag_results :
                  rag_results[file_path] = RagEntry(LastCallFor(file_path).outcome)
           /\ rag_report.successful_rag_files + rag_report.failed_rag_files
                  = Cardinality(FilesOf(successful_files))

C26_Witness ==
    /\ rpc = "returned"
    /\ Len(rag_calls) >= 2
    /\ rag_calls[1].outcome \in Errors
    /\ rag_report.failed_rag_files >= 1
    /\ rag_report.successful_rag_files >= 1

(***************************************************************************)
(* Order of the stages of process_document_complete (checked under DocSpec) *)
(***************************************************************************)
\* _process_multimodal_content has been entered in the current run
ModalStarted == status_lookup # "none" \/ item_outcomes # <<>> \/ calls # NoCalls

\* C27: the stages run in the order parse, classify, text insertion, modal
\* processing: insert_text_content is called at most once, only on a
\* non-blank text and only after parse_document has returned; modal
\* processing starts after the text stage is over, and it runs also when the
\* text insertion was skipped
C27_StageOrder ==
    /\ text_inserts <= 1
    /\ text_inserts = 1 => text_nonempty
    /\ pc = "parse" => (text_inserts = 0 /\ multimodal_items = <<>> /\ ~ModalStarted)
    /\ pc = "insert_text" =>
           /\ text_inserts = 0 /\ ~ModalStarted
           /\ ppc = "idle" /\ n_calls = runs /\ prev.result # NoResult
    /\ ModalStarted =>
           /\ multimodal_items # <<>>
           /\ text_inserts = (IF text_nonempty THEN 1 ELSE 0)
    /\ (pc = "done" /\ multimodal_items # <<>>) => ModalStarted

C27_Witness ==
    /\ pc = "done"
    /\ ~text_nonempty
    /\ text_inserts = 0
    /\ multimodal_items # <<>>
    /\ Len(item_outcomes) = Len(multimodal_items)

(***************************************************************************)
(* The entity name of a parsed response (checked under ResponseSpec)       *)
(***************************************************************************)
\* C28: whenever a parser returns, on the normal path and on the fallback
\* path, an override name given by the caller is the entity name as it is;
\* without an override the normal path returns the parsed entity_name with
\* ' (entity_type)' appended
C28_OverrideWinsElseTypeAppended ==
    (fpc = "parsed" /\ parsed.raised = "no") =>
        /\ response_in.entity_name # <<>> =>
               parsed.entity.entity_name = response_in.entity_name
        /\ (response_in.entity_name = <<>> /\ ~parsed.fallback) =>
               parsed.entity.entity_name = <<"entity_name", " (", "entity_type", ")">>

C28_Witness ==
    /\ fpc = "parsed"
    /\ parsed.raised = "no"
    /\ ~parsed.fallback
    /\ response_in.entity_name # <<>>
    /\ response_in.parser = "equation"

(***************************************************************************)
(* The belongs_to edges of the deferred results (checked under ItemSpec)   *)
(***************************************************************************)
\* C29: every chunk result returned to the item loop holds, for each mined
\* entity other than the carrier of its chunk, one belongs_to edge from that
\* entity to the carrier with keywords 'belongs_to,part_of,contained_in'
\* and weight 10.0, and holds no belongs_to edge from the carrier to itself
C29_OneBelongsToEdgePerMinedEntity ==
    \A k \in 1..Len(all_chunk_results) :
        LET r == all_chunk_results[k]
        IN  \E content_type \in ItemTypes, response \in Responses :
                LET carrier == EntityName(content_type, response)
                IN  /\ r.chunk = ChunkId(content_type, response)
                    /\ DOMAIN r.edge_data = {<<e, carrier>> : e \in r.nodes \ {carrier}}
                    /\ <<carrier, carrier>> \notin DOMAIN r.edge_data
                    /\ \A key \in DOMAIN r.edge_data :
                           /\ Len(r.edge_data[key]) = 1
                           /\ r.edge_data[key][1].keywords = "belongs_to,part_of,contained_in"
                           /\ r.edge_data[key][1].weight = 10
                           /\ r.edge_data[key][1].source_id = r.chunk

C29_Witness ==
    \E k \in 1..Len(all_chunk_results) :
        /\ Cardinality(all_chunk_results[k].nodes) = 2
        /\ Cardinality(DOMAIN all_chunk_results[k].edge_data) = 1

(***************************************************************************)
(* Repeated creation of the same chunk (checked under Spec)                *)
(***************************************************************************)
\* the second of two consecutive items with the same content is completed
\* by this step, the first one having been completed before
SecondIdenticalCall ==
    /\ pc = "items"
    /\ idx = 2
    /\ Len(multimodal_items) = 2
    /\ multimodal_items[1] = multimodal_items[2]
    /\ item_outcomes = <<"none">>
    /\ item_outcomes' = <<"none", "none">>

EntryOf(item, current_page) ==
    IF item.page_idx = current_page
    THEN ExtractTextFromItem(item, context_config.include_captions)
    ELSE PageMarked(item.page_idx,
                    ExtractTextFromItem(item, context_config.include_captions))

\* the block lies on a page p - w .. p + w (page indices are not negative)
\* and its type is admitted by the filter
InPageWindow(item) ==
    /\ item.page_idx >= 0
    /\ item.page_idx >= current_item_info.page_idx - context_config.context_window
    /\ item.page_idx <= current_item_info.page_idx + context_config.context_window
    /\ item.type \in context_config.filter_content_types

\* C32: in page mode the context of an item on page p with window w is made
\* of one entry for each block with a non-blank text that lies on a page
\* max(0, p - w) .. p + w and has a type admitted by the filter, and of
\* nothing else; the entry of a block on page p is its text, the entry of a
\* block on another page k is its text after '[Page k] '
C32_PageWindowAndMarkers ==
    epc = "page_context" =>
        /\ \A e \in 1..Len(context_texts) :
               \E b \in 1..Len(content_source) :
                   /\ InPageWindow(content_source[b])
                   /\ context_texts[e] =
                          EntryOf(content_source[b], current_item_info.page_idx)
        /\ \A b \in 1..Len(content_source) :
               (/\ InPageWindow(content_source[b])
                /\ Strip(ExtractTextFromItem(content_source[b],
                                             context_config.include_captions)) # <<>>)
               => \E e \in 1..Len(context_texts) :
                      context_texts[e] =
                          EntryOf(content_source[b], current_item_info.page_idx)
        /\ extracted = JoinLines(context_texts)

\* five pages of text, window 1, item on page 3: the context is the text of
\* page 2 (marked), of page 3 and of page 4 (marked)
C32_Witness ==
    /\ epc = "page_context"
    /\ Len(content_source) = 5
    /\ \A b \in 1..5 : content_source[b].type = "text" /\ content_source[b].text # <<" ">>
    /\ context_config.context_window = 1
    /\ current_item_info.page_idx = 3
    /\ context_texts = << <<"[", "P", "a", "g", "e", " ", "2", "]", " ", "t", "2">>,
                          <<"t", "3">>,
                          <<"[", "P", "a", "g", "e", " ", "4", "]", " ", "t", "4">> >>

\* the same list with the item on page 0: pages 0 and 1 only
C32_WitnessFirstPage ==
    /\ epc = "page_context"
    /\ \A b \in 1..Len(content_source) :
           content_source[b].type = "text" /\ content_source[b].text # <<" ">>
    /\ context_config.context_window = 1
    /\ current_item_info.page_idx = 0
    /\ Len(context_texts) = 2
    /\ context_texts[1] = <<"t", "0">>

(***************************************************************************)
(* Captions in the page context (checked under ContextSpec)                *)
(***************************************************************************)
\* the entry the caption of an image or table block makes
CaptionEntry(item) ==
    IF item.page_idx = current_item_info.page_idx
    THEN ExtractTextFromItem(item, TRUE)
    ELSE PageMarked(item.page_idx, ExtractTextFromItem(item, TRUE))

\* an image or table block with a caption on a page of the window
CaptionedInWindow(item) ==
    /\ item.type \in {"image", "table"}
    /\ item.captions # <<>>
    /\ item.page_idx >= current_item_info.page_idx - context_config.context_window
    /\ item.page_idx <= current_item_info.page_idx + context_config.context_window

\* C33: with include_captions set, every captioned image or table block on
\* a page of the window has its caption in the context, whatever the
\* content-type filter admits; with include_captions unset, no caption is
\* in the context
C33_CaptionsIndependentOfFilter ==
    epc = "page_context" =>
        \A b \in 1..Len(content_source) :
            CaptionedInWindow(content_source[b]) =>
                (context_config.include_captions <=>
                     \E e \in 1..Len(context_texts) :
                         context_texts[e] = CaptionEntry(content_source[b]))

\* the half of C33 that the code keeps: without include_captions no caption
\* is in the context
CaptionsOffNeverContribute ==
    (epc = "page_context" /\ ~context_config.include_captions) =>
        \A b \in 1..Len(content_source) :
            CaptionedInWindow(content_source[b]) =>
                \A e \in 1..Len(context_texts) :
                    context_texts[e] # CaptionEntry(content_source[b])

\* the default filter with include_captions set: a captioned image on the
\* item's page is in the list and its caption is not in the context
CaptionDroppedByFilter ==
    /\ epc = "page_context"
    /\ context_config.include_captions
    /\ context_config.filter_content_types = {"text"}
    /\ \E b \in 1..Len(content_source) :
           /\ content_source[b].type = "image"
           /\ content_source[b].captions # <<>>
           /\ content_source[b].page_idx = current_item_info.page_idx
           /\ \A e \in 1..Len(context_texts) :
                  context_texts[e] # CaptionEntry(content_source[b])

(***************************************************************************)
(* The budget of _truncate_context (checked under TruncateSpec)            *)
(***************************************************************************)
\* C34: _truncate_context returns a text that fits the budget unchanged
\* and returns, for a text that does not fit, a text of at most
\* max_context_tokens characters, whichever branch it takes
C34_TruncatedWithinBudget ==
    epc = "truncated" =>
        IF Len(context) <= context_config.max_context_tokens
        THEN extracted = context
        ELSE Len(extracted) <= context_config.max_context_tokens

\* what the code keeps of C34: a text that fits is returned unchanged, the
\* sentence and line branches stay within the budget, and the hard
\* truncation returns three characters more than the budget
TruncatedLengths ==
    epc = "truncated" =>
        LET branch == TruncateBranch(context, context_config.max_context_tokens)
        IN  /\ branch \in {"empty", "fits"} => extracted = context
            /\ branch \in {"sentence", "line"} =>
                   Len(extracted) <= context_config.max_context_tokens
            /\ branch = "hard" =>
                   Len(extracted) = context_config.max_context_tokens + 3

\* each of the three truncating branches is taken by a bounded text
SentenceBranchTaken ==
    epc = "truncated" /\ TruncateBranch(context, context_config.max_context_tokens) = "sentence"

LineBranchTaken ==
    epc = "truncated" /\ TruncateBranch(context, context_config.max_context_tokens) = "line"

\* "aaaa" with a budget of 3 is returned as "aaa...", six characters
HardBranchOverBudget ==
    /\ epc = "truncated"
    /\ context = <<"a", "a", "a", "a">>
    /\ context_config.max_context_tokens = 3
    /\ extracted = <<"a", "a", "a", ".", ".", ".">>

(***************************************************************************)
(* Resumption over repeated runs (checked under ResumeSpec)                *)
(***************************************************************************)
\* the step in which the resumption check returns early
ShortCircuit == pc = "mm_enter" /\ pc' = "done"

\* the chunk of item k is in the chunk store: some run's processor call for
\* an item with this content got as far as storing its chunk
ChunkStored(k) == ChunkId(multimodal_items[k], RunResponse) \in stores.text_chunks

ShortCircuitedWithUnchunkedItem ==
    /\ pc = "done"
    /\ runs = 3
    /\ multimodal_items = <<"image", "table">>
    /\ item_outcomes = <<>>
    /\ status_lookup = "ok"
    /\ ~ChunkStored(2)

\* the items of the document differ pairwise, so each has its own chunk id
DistinctItems ==
    \A j, k \in 1..Len(multimodal_items) :
        multimodal_items[j] = multimodal_items[k] => j = k

ChunkIdListedTwice ==
    /\ runs = 2
    /\ multimodal_items = <<"image", "table">>
    /\ doc_status.multimodal_chunks_list =
           <<ChunkId("image", RunResponse), ChunkId("image", RunResponse),
             ChunkId("table", RunResponse)>>
    /\ doc_status.multimodal_chunks_count = 3

(***************************************************************************)
(* Mutual exclusion and instance lifetime in the service (ServiceSpec)     *)
(***************************************************************************)
\* the requests that are inside `async with workspace_manager.lock(...)`
\* for workspace w, downloading or running process_document_complete
Processing(w) ==
    {r \in 1..MaxRequests : requests[r].pc = "processing" /\ requests[r].workspace = w}

\* C37: at most one request at a time is running process_document_complete
\* for a workspace, and the lock a request holds is the lock registered for
\* its workspace (it is not dropped or replaced while held)
C37_OneIngestPerWorkspace ==
    \A w \in Workspaces :
        /\ Cardinality(Processing(w)) <= 1
        /\ \A r \in Processing(w) : locks[w] = requests[r].lock

\* two ingest requests of one workspace are processing at the same time,
\* each holding a lock of its own
TwoIngestsInOneWorkspace ==
    \E r1, r2 \in 1..MaxRequests :
        /\ r1 # r2
        /\ requests[r1].workspace = requests[r2].workspace
        /\ requests[r1].pc = "processing"
        /\ requests[r2].pc = "processing"
        /\ requests[r1].lock # requests[r2].lock
        /\ holder[requests[r1].lock] = r1
        /\ holder[requests[r2].lock] = r2

\* C38: the instance an ingest request obtained from get_rag is not
\* finalized while the request is processing documents
C38_InstanceNotFinalizedInUse ==
    \A r \in 1..MaxRequests :
        requests[r].pc = "processing" => requests[r].rag \notin finalized

\* an ingest request is processing with an instance that purge_idle
\* finalized and dropped when another request called get_rag
FinalizedByPurgeWhileInUse ==
    \E r \in 1..MaxRequests :
        /\ requests[r].pc = "processing"
        /\ requests[r].rag \in finalized
        /\ \A q \in 1..MaxRequests : requests[q].kind \in {"none", "ingest"}

\* an ingest request is processing with an instance that clear_workspace
\* finalized
FinalizedByClearWhileInUse ==
    \E r \in 1..MaxRequests :
        /\ requests[r].pc = "processing"
        /\ requests[r].rag \in finalized
        /\ \A w \in Workspaces : ~instances[w].stale
        /\ \E q \in 1..MaxRequests : requests[q].kind = "reset"

(***************************************************************************)
(* Processor selection (checked under Spec)                                *)
(***************************************************************************)
\* C39: every modal item has a processor, under every configuration of the
\* enable flags: the item loop skips no item for lack of a processor
C39_NoItemWithoutProcessor ==
    \A k \in 1..Len(item_outcomes) : item_outcomes[k] # "no_processor"

\* with image processing disabled the registry has no "image" key and the
\* item loop skipped an image item
ImageItemSkipped ==
    /\ "image" \notin modal_processors
    /\ "generic" \in modal_processors
    /\ \E k \in 1..Len(item_outcomes) :
           multimodal_items[k] = "image" /\ item_outcomes[k] = "no_processor"

(***************************************************************************)
(* Keys of the belongs_to records (checked under RelationSpec)             *)
(***************************************************************************)
\* C40: two different (entity, carrier) pairs never have the same record
\* key: every belongs_to edge has, in the relationship vector index, a
\* record of its own pair
C40_RelationIdInjective ==
    /\ \A p, q \in rel_edges :
           p # q => RelationId(p[1], p[2]) # RelationId(q[1], q[2])
    /\ \A p \in rel_edges :
           \E rec \in rel_vdb : rec.src_id = p[1] /\ rec.tgt_id = p[2]

\* the pairs ("ab", "a") and ("a", "ba") are both written "aba": the record
\* of the second call has replaced the record of the first
RelationRecordOverwritten ==
    /\ rel_edges = {<< <<"a", "b">>, <<"a">> >>, << <<"a">>, <<"b", "a">> >>}
    /\ Cardinality(rel_vdb) = 1

====
